---- MODULE Spec2Model ----
(***************************************************************************)
(* A model of the ID3v2 tag codec of id3-js-core: the byte utilities       *)
(* (synchsafe integers, unsynchronisation, flag bytes, identifier remap,   *)
(* text encodings), the frame header and tag header codecs, the version    *)
(* selection of the encoder and the frame loop of the decoder.             *)
(*                                                                         *)
(* Buffers are sequences of bytes (0..255).  JavaScript numbers that go    *)
(* through bitwise operators are kept as 32-bit two's complement values.   *)
(***************************************************************************)
EXTENDS Integers, Sequences, FiniteSets, TLC

VARIABLES
    phase,      \* position of the caller: which call was made last
    frames,     \* the Frame objects handed to encode (their flags are mutable)
    built,      \* the same frames as the constructors (and flag setters) left them
    opts,       \* IUserDefinedEncodingOptions of the last encode call
    result,     \* what the last encode call returned or threw
    tag,        \* the bytes handed to Decoder.decode: result.bytes, padded or not
    padding,    \* number of 0x00 bytes put after the last frame of tag
    decoded,    \* what Decoder.decode returned or threw for tag
    data,       \* input buffer of the byte utilities
    unsynced,   \* Unsynchronisation.encode(data)
    resynced,   \* Unsynchronisation.decode(unsynced)
    num,        \* input number of SynchsafeInteger.encode
    synchsafe,  \* SynchsafeInteger.encode(num)
    desynched,  \* SynchsafeInteger.decode(synchsafe)
    arg,        \* the arguments of a method called on its own
    ret         \* what that method returned or threw

vars == <<phase, frames, built, opts, result, tag, padding, decoded,
          data, unsynced, resynced, num, synchsafe, desynched, arg, ret>>

codecVars == <<frames, built, opts, result, tag, padding, decoded>>
unsyncVars == <<data, unsynced, resynced>>
synchVars == <<num, synchsafe, desynched>>
askVars == <<arg, ret>>

-----------------------------------------------------------------------------
(* Bounds of the model *)

\* longest buffer handed to the unsynchronisation utilities
MaxBufLen == 4

\* longest of the short texts of a frame whose header is looked at on its own
MaxShortText == 40

\* number of 0x00 bytes put after the last frame of a tag
MaxPadding == 2

\* number of frames in the list handed to encode
MaxFrames == 2

\* number of sample values taken for each seven-bit group of a synchsafe input
SynchSamples == 4

-----------------------------------------------------------------------------
(* 32-bit arithmetic of the JavaScript bitwise operators.                  *)
(* A value is the signed 32-bit integer the operator yields (ToInt32).     *)

Pow2(n) == 2 ^ n

MaxInt32 == 2147483647
MinInt32 == (-MaxInt32) - 1

\* bit i of a two's complement value is (a \div 2^i) % 2; after 31 halvings
\* only the sign is left (0 or -1).  Once one operand has no bit left the
\* remaining bits are those of 0 (and) or of the other operand (or).
RECURSIVE AndBits(_, _, _)
AndBits(a, b, n) ==
    IF a = 0 \/ b = 0 THEN 0
    ELSE IF n = 1 THEN (IF a % 2 = 1 /\ b % 2 = 1 THEN -1 ELSE 0)
    ELSE (IF a % 2 = 1 /\ b % 2 = 1 THEN 1 ELSE 0) + 2 * AndBits(a \div 2, b \div 2, n - 1)

RECURSIVE OrBits(_, _, _)
OrBits(a, b, n) ==
    IF a = 0 THEN b
    ELSE IF b = 0 THEN a
    ELSE IF n = 1 THEN (IF a % 2 = 1 \/ b % 2 = 1 THEN -1 ELSE 0)
    ELSE (IF a % 2 = 1 \/ b % 2 = 1 THEN 1 ELSE 0) + 2 * OrBits(a \div 2, b \div 2, n - 1)

\* a & b: each operand is evaluated to a number once, then the bits are combined
BitAnd(a, b) == CHOOSE r \in {AndBits(x, y, 32) : x \in {a}, y \in {b}} : TRUE

\* a | b, in the same way
BitOr(a, b) == CHOOSE r \in {OrBits(x, y, 32) : x \in {a}, y \in {b}} : TRUE

\* ~a
BitNot(a) == (-a) - 1

\* a << n for 1 <= n <= 31: the bits shifted out are lost, bit 31 is the sign
Shl(a, n) ==
    LET low == a % Pow2(31 - n)
        top == (a \div Pow2(31 - n)) % 2
    IN low * Pow2(n) + (IF top = 1 THEN MinInt32 ELSE 0)

\* a >> n (sign-propagating; \div rounds towards minus infinity)
Sar(a, n) == a \div Pow2(n)

\* ToInt32(a - 1), as the next bitwise operator reads it
Dec32(a) == IF a = MinInt32 THEN MaxInt32 ELSE a - 1

-----------------------------------------------------------------------------
(* SynchsafeInteger *)

RECURSIVE SynchsafeEncodeLoop(_, _, _)
SynchsafeEncodeLoop(val, out, mask) ==
    IF mask = MaxInt32 THEN out
    ELSE LET o1 == BitAnd(val, BitNot(mask))
             o2 == Shl(o1, 1)
             o3 == BitOr(o2, BitAnd(val, mask))
             m2 == Dec32(Shl(mask + 1, 8))
         IN SynchsafeEncodeLoop(o3, o3, m2)

\* the loop entered with the mask of the second step: the low seven bits are not moved
SynchsafeEncodeWithoutFirstStep(v) == SynchsafeEncodeLoop(v, 0, 32767)
SynchsafeInteger_encode(v) == SynchsafeEncodeLoop(v, 0, 127)

RECURSIVE SynchsafeDecodeLoop(_, _, _)
SynchsafeDecodeLoop(v, out, mask) ==
    IF mask = 0 THEN out
    ELSE LET o1 == Sar(out, 1)
             o2 == BitOr(o1, BitAnd(v, mask))
         IN SynchsafeDecodeLoop(v, o2, Sar(mask, 8))

\* the value handed back as it was read, sign included
SynchsafeDecodeWithoutMasks(v) == v
SynchsafeInteger_decode(v) == SynchsafeDecodeLoop(v, 0, 2130706432)

-----------------------------------------------------------------------------
(* Buffer helpers *)

Byte == 0 .. 255

\* buf.slice(from, to)
Slice(buf, from, to) ==
    LET t == IF to > Len(buf) THEN Len(buf) ELSE to
    IN IF from >= t THEN << >> ELSE SubSeq(buf, from + 1, t)

\* buf[i] with a zero-based index; -1 stands for undefined
At(buf, i) == IF i >= 0 /\ i < Len(buf) THEN buf[i + 1] ELSE -1

\* the n low bytes of v, big-endian (writeIntBE / writeUIntBE / writeInt32BE)
RECURSIVE BytesBE(_, _)
BytesBE(v, n) ==
    IF n = 0 THEN << >>
    ELSE Append(BytesBE(v \div 256, n - 1), v % 256)

\* signed big-endian value of a non-empty buffer
RECURSIVE SIntBE(_)
SIntBE(buf) ==
    IF Len(buf) = 1 THEN (IF buf[1] >= 128 THEN buf[1] - 256 ELSE buf[1])
    ELSE 256 * SIntBE(SubSeq(buf, 1, Len(buf) - 1)) + buf[Len(buf)]

\* readIntBE(offset, n), readInt32BE, readInt16BE: the caller checks the range
ReadIntBE(buf, offset, n) == SIntBE(Slice(buf, offset, offset + n))

\* the read throws a RangeError when the buffer ends before offset + n
ReadInRange(buf, offset, n) == offset + n <= Len(buf)

\* Math.ceil(Math.log2(n + 1) / 8) for 0 <= n < 2^16
ByteWidth(n) == IF n = 0 THEN 0 ELSE IF n < 256 THEN 1 ELSE 2

-----------------------------------------------------------------------------
(* Unsynchronisation *)

RECURSIVE UnsyncEncodeFrom(_, _)
UnsyncEncodeFrom(buf, i) ==
    IF i >= Len(buf) THEN << >>
    ELSE LET stuff == /\ At(buf, i) = 255
                      /\ \/ At(buf, i + 1) = 0
                         \/ At(buf, i + 1) >= 224
                         \/ i = Len(buf) - 1
         IN (IF stuff THEN <<At(buf, i), 0>> ELSE <<At(buf, i)>>)
                \o UnsyncEncodeFrom(buf, i + 1)

\* the walk without its "i === data.length - 1" case: no zero byte after a last 0xFF
UnsynchronisationEncodeWithoutEndCase(buf) ==
    LET walked == UnsyncEncodeFrom(buf, 0)
    IN IF buf # << >> /\ buf[Len(buf)] = 255 THEN SubSeq(walked, 1, Len(walked) - 1) ELSE walked
Unsynchronisation_encode(buf) == UnsyncEncodeFrom(buf, 0)

RECURSIVE UnsyncDecodeFrom(_, _)
UnsyncDecodeFrom(buf, i) ==
    IF i >= Len(buf) THEN << >>
    ELSE IF At(buf, i) = 255 THEN <<255>> \o UnsyncDecodeFrom(buf, i + 2)
    ELSE <<At(buf, i)>> \o UnsyncDecodeFrom(buf, i + 1)

Unsynchronisation_decode(buf) == UnsyncDecodeFrom(buf, 0)

-----------------------------------------------------------------------------
(* Identifiers.  A string is the sequence of its character codes, so that  *)
(* it can be written into and read out of a buffer.                        *)

ID_TIT2 == <<84, 73, 84, 50>>
ID_TLEN == <<84, 76, 69, 78>>
ID_TYER == <<84, 89, 69, 82>>
ID_TDRC == <<84, 68, 82, 67>>
ID_TCP == <<84, 67, 80>>
ID_RVRB == <<82, 86, 82, 66>>
ID_EQUA == <<69, 81, 85, 65>>
ID_EQU2 == <<69, 81, 85, 50>>
ID_RVAD == <<82, 86, 65, 68>>
ID_RVA2 == <<82, 86, 65, 50>>
ID_MCDI == <<77, 67, 68, 73>>
ID_MLLT == <<77, 76, 76, 84>>
ID_COM == <<67, 79, 77>>
ID_COMM == <<67, 79, 77, 77>>
ID_IPLS == <<73, 80, 76, 83>>
ID_TXX == <<84, 88, 88>>
ID_TXXX == <<84, 88, 88, 88>>
ID_WXX == <<87, 88, 88>>
ID_WXXX == <<87, 88, 88, 88>>
ID_ID3 == <<73, 68, 51>>

\* the pairs of a v2.2 identifier and its v2.3/v2.4 form
remappedFrames == <<
    <<<<66, 85, 70>>, <<82, 66, 85, 70>>>>,    \* BUF RBUF
    <<<<67, 78, 84>>, <<80, 67, 78, 84>>>>,    \* CNT PCNT
    <<<<67, 79, 77>>, <<67, 79, 77, 77>>>>,    \* COM COMM
    <<<<67, 82, 65>>, <<65, 69, 78, 67>>>>,    \* CRA AENC
    <<<<69, 84, 67>>, <<69, 84, 67, 79>>>>,    \* ETC ETCO
    <<<<69, 81, 85>>, <<69, 81, 85, 65>>>>,    \* EQU EQUA
    <<<<71, 69, 79>>, <<71, 69, 79, 66>>>>,    \* GEO GEOB
    <<<<73, 80, 76>>, <<73, 80, 76, 83>>>>,    \* IPL IPLS
    <<<<76, 78, 75>>, <<76, 73, 78, 75>>>>,    \* LNK LINK
    <<<<77, 67, 73>>, <<77, 67, 68, 73>>>>,    \* MCI MCDI
    <<<<77, 76, 76>>, <<77, 76, 76, 84>>>>,    \* MLL MLLT
    <<<<80, 73, 67>>, <<65, 80, 73, 67>>>>,    \* PIC APIC
    <<<<80, 79, 80>>, <<80, 79, 80, 77>>>>,    \* POP POPM
    <<<<82, 69, 86>>, <<82, 86, 82, 66>>>>,    \* REV RVRB
    <<<<82, 86, 65>>, <<82, 86, 65, 68>>>>,    \* RVA RVAD
    <<<<83, 76, 84>>, <<83, 89, 76, 84>>>>,    \* SLT SYLT
    <<<<83, 84, 67>>, <<83, 89, 84, 67>>>>,    \* STC SYTC
    <<<<84, 65, 76>>, <<84, 65, 76, 66>>>>,    \* TAL TALB
    <<<<84, 66, 80>>, <<84, 66, 80, 77>>>>,    \* TBP TBPM
    <<<<84, 67, 77>>, <<84, 67, 79, 77>>>>,    \* TCM TCOM
    <<<<84, 67, 79>>, <<84, 67, 79, 78>>>>,    \* TCO TCON
    <<<<84, 67, 82>>, <<84, 67, 79, 80>>>>,    \* TCR TCOP
    <<<<84, 68, 65>>, <<84, 68, 65, 84>>>>,    \* TDA TDAT
    <<<<84, 68, 89>>, <<84, 68, 76, 89>>>>,    \* TDY TDLY
    <<<<84, 69, 78>>, <<84, 69, 78, 67>>>>,    \* TEN TENC
    <<<<84, 70, 84>>, <<84, 70, 76, 84>>>>,    \* TFT TFLT
    <<<<84, 73, 77>>, <<84, 73, 77, 69>>>>,    \* TIM TIME
    <<<<84, 75, 69>>, <<84, 75, 69, 89>>>>,    \* TKE TKEY
    <<<<84, 76, 65>>, <<84, 76, 65, 78>>>>,    \* TLA TLAN
    <<<<84, 76, 69>>, <<84, 76, 69, 78>>>>,    \* TLE TLEN
    <<<<84, 77, 84>>, <<84, 77, 69, 68>>>>,    \* TMT TMED
    <<<<84, 79, 65>>, <<84, 79, 80, 69>>>>,    \* TOA TOPE
    <<<<84, 79, 70>>, <<84, 79, 70, 78>>>>,    \* TOF TOFN
    <<<<84, 79, 76>>, <<84, 79, 76, 89>>>>,    \* TOL TOLY
    <<<<84, 79, 82>>, <<84, 79, 82, 89>>>>,    \* TOR TORY
    <<<<84, 79, 84>>, <<84, 79, 65, 76>>>>,    \* TOT TOAL
    <<<<84, 80, 49>>, <<84, 80, 69, 49>>>>,    \* TP1 TPE1
    <<<<84, 80, 50>>, <<84, 80, 69, 50>>>>,    \* TP2 TPE2
    <<<<84, 80, 51>>, <<84, 80, 69, 51>>>>,    \* TP3 TPE3
    <<<<84, 80, 52>>, <<84, 80, 69, 52>>>>,    \* TP4 TPE4
    <<<<84, 80, 65>>, <<84, 80, 79, 83>>>>,    \* TPA TPOS
    <<<<84, 80, 66>>, <<84, 80, 85, 66>>>>,    \* TPB TPUB
    <<<<84, 82, 67>>, <<84, 83, 82, 67>>>>,    \* TRC TSRC
    <<<<84, 82, 68>>, <<84, 82, 68, 65>>>>,    \* TRD TRDA
    <<<<84, 82, 75>>, <<84, 82, 67, 75>>>>,    \* TRK TRCK
    <<<<84, 83, 73>>, <<84, 83, 73, 90>>>>,    \* TSI TSIZ
    <<<<84, 83, 83>>, <<84, 83, 83, 69>>>>,    \* TSS TSSE
    <<<<84, 84, 49>>, <<84, 73, 84, 49>>>>,    \* TT1 TIT1
    <<<<84, 84, 50>>, <<84, 73, 84, 50>>>>,    \* TT2 TIT2
    <<<<84, 84, 51>>, <<84, 73, 84, 51>>>>,    \* TT3 TIT3
    <<<<84, 88, 84>>, <<84, 69, 88, 84>>>>,    \* TXT TEXT
    <<<<84, 88, 88>>, <<84, 88, 88, 88>>>>,    \* TXX TXXX
    <<<<84, 89, 69>>, <<84, 89, 69, 82>>>>,    \* TYE TYER
    <<<<85, 70, 73>>, <<85, 70, 73, 68>>>>,    \* UFI UFID
    <<<<85, 76, 84>>, <<85, 83, 76, 84>>>>,    \* ULT USLT
    <<<<87, 65, 70>>, <<87, 79, 65, 70>>>>,    \* WAF WOAF
    <<<<87, 65, 82>>, <<87, 79, 65, 82>>>>,    \* WAR WOAR
    <<<<87, 65, 83>>, <<87, 79, 65, 83>>>>,    \* WAS WOAS
    <<<<87, 67, 77>>, <<87, 67, 79, 77>>>>,    \* WCM WCOM
    <<<<87, 67, 80>>, <<87, 67, 79, 80>>>>,    \* WCP WCOP
    <<<<87, 80, 66>>, <<87, 80, 85, 66>>>>,    \* WPB WPUB
    <<<<87, 88, 88>>, <<87, 88, 88, 88>>>>     \* WXX WXXX
>>

getIdentifierLength(ID3Version) == IF ID3Version > 2 THEN 4 ELSE 3

\* the first pair of the table whose entry at position pos is the identifier (0: none)
RemapIndex(identifier, pos) ==
    LET hits == {i \in 1 .. Len(remappedFrames) : remappedFrames[i][pos] = identifier}
    IN IF hits = {} THEN 0 ELSE CHOOSE i \in hits : \A j \in hits : i <= j

\* getCorrectIdentifier throws when the identifier has to change and the table has no pair for it
getCorrectIdentifierThrows(identifier, targetID3Version) ==
    LET originalID3Version == IF Len(identifier) = 3 THEN 2 ELSE 3
    IN /\ ~ (\/ (originalID3Version = 3 /\ targetID3Version = 4)
             \/ originalID3Version = targetID3Version)
       /\ RemapIndex(identifier, IF originalID3Version > 2 THEN 2 ELSE 1) = 0

\* getCorrectIdentifier returning remap[1], the later name, whichever column matched
getCorrectIdentifierAlwaysLaterName(identifier, targetID3Version) ==
    LET originalID3Version == IF Len(identifier) = 3 THEN 2 ELSE 3
        positionInRemapArray == IF originalID3Version > 2 THEN 2 ELSE 1
    IN IF \/ (originalID3Version = 3 /\ targetID3Version = 4)
          \/ originalID3Version = targetID3Version
       THEN identifier
       ELSE remappedFrames[RemapIndex(identifier, positionInRemapArray)][2]

getCorrectIdentifier(identifier, targetID3Version) ==
    LET originalID3Version == IF Len(identifier) = 3 THEN 2 ELSE 3
        positionInRemapArray == IF originalID3Version > 2 THEN 2 ELSE 1
    IN IF \/ (originalID3Version = 3 /\ targetID3Version = 4)
          \/ originalID3Version = targetID3Version
       THEN identifier
       ELSE remappedFrames[RemapIndex(identifier, positionInRemapArray)][IF positionInRemapArray = 1 THEN 2 ELSE 1]

-----------------------------------------------------------------------------
(* FlagByte *)

\* parseInt(bits, 2) of a sequence of booleans, most significant first
RECURSIVE BitsValue(_)
BitsValue(bits) ==
    IF bits = << >> THEN 0
    ELSE 2 * BitsValue(SubSeq(bits, 1, Len(bits) - 1)) + (IF bits[Len(bits)] THEN 1 ELSE 0)

\* padEnd(n, "0")
PadEnd(bits, n) == IF Len(bits) >= n THEN bits ELSE bits \o [i \in 1 .. (n - Len(bits)) |-> FALSE]

FlagByte_encode(flags, byteCount) == BitsValue(PadEnd(flags, byteCount * 8))

\* value.toString(2).split("").map(bit => bit === "1") for value >= 0:
\* the binary digits without leading zeros ("0" for zero)
RECURSIVE BinaryDigits(_)
BinaryDigits(v) ==
    IF v < 2 THEN <<v = 1>>
    ELSE Append(BinaryDigits(v \div 2), v % 2 = 1)

\* the same for any number: a negative one prints as "-" and the digits of its magnitude
ToBinaryFlags(v) == IF v < 0 THEN <<FALSE>> \o BinaryDigits(-v) ELSE BinaryDigits(v)

\* flags[i] of such an array, zero-based; a missing element is undefined, which is falsy
FlagAt(flags, i) == i < Len(flags) /\ flags[i + 1]

-----------------------------------------------------------------------------
(* TextEncodingType.  A text is the sequence of its UTF-16 code units.     *)

TextEncodingNames == {"ISO-8859-1", "UTF-16", "UTF-16BE", "UTF-8"}

getByteFromName(encodingName) ==
    CASE encodingName = "ISO-8859-1" -> 0
      [] encodingName = "UTF-16" -> 1
      [] encodingName = "UTF-16BE" -> 2
      [] encodingName = "UTF-8" -> 3

\* getNameFromByte throws for any other byte
ValidEncodingByte(encodingByte) == encodingByte \in 0 .. 3

getNameFromByte(encodingByte) ==
    CASE encodingByte = 0 -> "ISO-8859-1"
      [] encodingByte = 1 -> "UTF-16"
      [] encodingByte = 2 -> "UTF-16BE"
      [] encodingByte = 3 -> "UTF-8"

terminator(encodingName) ==
    IF encodingName \in {"UTF-16", "UTF-16BE"} THEN <<0, 0>> ELSE <<0>>

RECURSIVE Flatten(_)
Flatten(bufs) == IF bufs = << >> THEN << >> ELSE Head(bufs) \o Flatten(Tail(bufs))

\* Buffer.from(text, "latin1")
Latin1Bytes(text) == [i \in 1 .. Len(text) |-> text[i] % 256]

\* Buffer.from(text, "utf16le")
Utf16leBytes(text) == Flatten([i \in 1 .. Len(text) |-> <<text[i] % 256, text[i] \div 256>>])

\* Buffer.from(text, "utf8") for code units outside the surrogate range
Utf8Bytes(text) ==
    Flatten([i \in 1 .. Len(text) |->
        IF text[i] < 128 THEN <<text[i]>>
        ELSE IF text[i] < 2048 THEN <<192 + (text[i] \div 64), 128 + (text[i] % 64)>>
        ELSE <<224 + (text[i] \div 4096), 128 + ((text[i] \div 64) % 64), 128 + (text[i] % 64)>>])

\* newBuffer[i] = data[i + 1]; newBuffer[i + 1] = data[i] for i = 0, 2, ...: a missing
\* data[i + 1] is stored as 0 and a store past the end is dropped
toggleUTF16Endian(buf) ==
    [k \in 1 .. Len(buf) |->
        IF k % 2 = 1 THEN (IF k + 1 <= Len(buf) THEN buf[k + 1] ELSE 0)
        ELSE buf[k - 1]]

encodeText(encodingName, text) ==
    CASE encodingName = "UTF-16BE" -> toggleUTF16Endian(Utf16leBytes(text))
      [] encodingName = "UTF-16" -> Utf16leBytes(text)
      [] encodingName = "UTF-8" -> Utf8Bytes(text)
      [] encodingName = "ISO-8859-1" -> Latin1Bytes(text)

\* buf.toString("latin1")
Latin1Text(buf) == buf

\* buf.toString("utf16le"): an odd last byte is dropped
Utf16leText(buf) == [i \in 1 .. (Len(buf) \div 2) |-> buf[2 * i - 1] + 256 * buf[2 * i]]

IsContinuation(b) == b >= 128 /\ b < 192

\* buf.toString("utf8"): a byte that does not start a well-formed sequence becomes U+FFFD
RECURSIVE Utf8TextFrom(_, _)
Utf8TextFrom(buf, i) ==
    IF i >= Len(buf) THEN << >>
    ELSE LET b0 == At(buf, i)
             b1 == At(buf, i + 1)
             b2 == At(buf, i + 2)
         IN IF b0 < 128 THEN <<b0>> \o Utf8TextFrom(buf, i + 1)
            ELSE IF b0 >= 194 /\ b0 < 224 /\ IsContinuation(b1)
                 THEN <<(b0 - 192) * 64 + (b1 - 128)>> \o Utf8TextFrom(buf, i + 2)
            ELSE IF b0 >= 224 /\ b0 < 240 /\ IsContinuation(b1) /\ IsContinuation(b2)
                      /\ (b0 - 224) * 4096 + (b1 - 128) * 64 >= 2048
                 THEN <<(b0 - 224) * 4096 + (b1 - 128) * 64 + (b2 - 128)>> \o Utf8TextFrom(buf, i + 3)
            ELSE <<65533>> \o Utf8TextFrom(buf, i + 1)

decodeText(encodingName, buf) ==
    CASE encodingName = "UTF-16BE" -> Utf16leText(toggleUTF16Endian(buf))
      [] encodingName = "UTF-16" -> Utf16leText(buf)
      [] encodingName = "UTF-8" -> Utf8TextFrom(buf, 0)
      [] encodingName = "ISO-8859-1" -> Latin1Text(buf)

-----------------------------------------------------------------------------
(* Frame flags (FrameFlagManager) *)

\* this.flags === undefined
NoFlags ==
    [defined |-> FALSE,
     discardOnTagAlteration |-> FALSE, discardOnFileAlteration |-> FALSE, readOnly |-> FALSE,
     compression |-> FALSE, encryption |-> FALSE, groupingIdentity |-> FALSE,
     unsynchronisation |-> FALSE, dataLengthIndicator |-> FALSE]

\* an IV3FrameFlags object leaves the two v2.4 flags undefined, which every use reads as false
AllFalseFlags == [NoFlags EXCEPT !.defined = TRUE]

\* ASPI AENC ETCO EQUA EQU2 MLLT POSS SEEK SYLT SYTC RVAD RVA2 TENC TLEN TSIZ
framesToBeDiscardedOnFileAlter == {
    <<65, 83, 80, 73>>, <<65, 69, 78, 67>>, <<69, 84, 67, 79>>, <<69, 81, 85, 65>>,
    <<69, 81, 85, 50>>, <<77, 76, 76, 84>>, <<80, 79, 83, 83>>, <<83, 69, 69, 75>>,
    <<83, 89, 76, 84>>, <<83, 89, 84, 67>>, <<82, 86, 65, 68>>, <<82, 86, 65, 50>>,
    <<84, 69, 78, 67>>, <<84, 76, 69, 78>>, <<84, 83, 73, 90>>}

\* a byte representation that leaves the last flag of the v2.4 layout out
getByteRepresentationWithoutLastFlag(flags, ID3Version) ==
    IF ~ flags.defined THEN FlagByte_encode(<< >>, 2)
    ELSE FlagByte_encode(<<FALSE, flags.discardOnTagAlteration, flags.discardOnFileAlteration, flags.readOnly,
                           FALSE, FALSE, FALSE, FALSE, FALSE,
                           flags.groupingIdentity, FALSE, FALSE,
                           flags.compression, flags.encryption,
                           flags.unsynchronisation, FALSE>>, 1)
getByteRepresentation(flags, ID3Version) ==
    IF ~ flags.defined THEN FlagByte_encode(<< >>, 2)
    ELSE IF ID3Version = 3
    THEN FlagByte_encode(<<flags.discardOnTagAlteration, flags.discardOnFileAlteration, flags.readOnly,
                           FALSE, FALSE, FALSE, FALSE, FALSE,
                           flags.compression, flags.encryption, flags.groupingIdentity>>, 1)
    ELSE FlagByte_encode(<<FALSE, flags.discardOnTagAlteration, flags.discardOnFileAlteration, flags.readOnly,
                           FALSE, FALSE, FALSE, FALSE, FALSE,
                           flags.groupingIdentity, FALSE, FALSE,
                           flags.compression, flags.encryption,
                           flags.unsynchronisation, flags.dataLengthIndicator>>, 1)

Supported == [supportsVersion |-> TRUE, reason |-> ""]
Unsupported(why) == [supportsVersion |-> FALSE, reason |-> why]

FrameFlagManager_supportsVersion(flags, version) ==
    CASE version = 2 ->
            IF getByteRepresentation(flags, 4) # 0
            THEN Unsupported("There are flags set, this is not supported in ID3v2.2")
            ELSE Supported
      [] version = 3 ->
            IF flags.defined /\ flags.unsynchronisation
            THEN Unsupported("The unsynchronisation flag is set, this is only supported in ID3v2.4")
            ELSE IF flags.defined /\ flags.dataLengthIndicator
            THEN Unsupported("The data length indicator flag is set, this is only supported in ID3v2.4")
            ELSE Supported
      [] version = 4 -> Supported

setDefaultFlags(identifier, ID3Version) ==
    [AllFalseFlags EXCEPT
        !.discardOnFileAlteration = getCorrectIdentifier(identifier, 3) \in framesToBeDiscardedOnFileAlter]

\* retBuf.writeInt16BE(getByteRepresentation(version), 0)
FrameFlagManager_encode(flags, ID3Version) == BytesBE(getByteRepresentation(flags, ID3Version), 2)

-----------------------------------------------------------------------------
(* Frames.  A frame object is its frameType, identifier, flags and value;  *)
(* the value of a text information frame is its text, the value of a       *)
(* reverb frame the ten numbers of IReverbValue in declaration order; the   *)
(* value of any other frame is the value object of its class.  The numbers *)
(* of a value are small enough for every buffer write of encodeContent to  *)
(* stay in range.                                                          *)

TextInformationFrame(identifier, value) ==
    [frameType |-> "TextInformationFrame", identifier |-> identifier, flags |-> NoFlags, value |-> value]

ReverbFrame(value) ==
    [frameType |-> "ReverbFrame", identifier |-> ID_RVRB, flags |-> NoFlags, value |-> value]

\* value: [adjustments: sequence of [increment, frequency, adjustment]]
EqualisationFrame(value) ==
    [frameType |-> "EqualisationFrame", identifier |-> ID_EQUA, flags |-> NoFlags, value |-> value]

\* value: [interpolationMethod, identification, adjustments: sequence of
\* [frequency, volumeAdjustment]]
EqualisationFrameV2(value) ==
    [frameType |-> "EqualisationFrameV2", identifier |-> ID_EQU2, flags |-> NoFlags, value |-> value]

\* an IChannelAdjustment of the relative volume adjustment frame, and a channel left out
Channel(increment, relativeVolumeAdjustment, peakVolume) ==
    [defined |-> TRUE, increment |-> increment,
     relativeVolumeAdjustment |-> relativeVolumeAdjustment, peakVolume |-> peakVolume]
NoChannel == [defined |-> FALSE, increment |-> FALSE, relativeVolumeAdjustment |-> 0, peakVolume |-> 0]

\* value: [right, left, leftBack, rightBack, center, bass], each a channel or none
RelativeVolumeAdjustmentFrame(value) ==
    [frameType |-> "RelativeVolumeAdjustmentFrame", identifier |-> ID_RVAD, flags |-> NoFlags,
     value |-> value]

\* value: [identificationString, adjustments: sequence of [channelType,
\* relativeVolumeAdjustment, peakVolume]]
RelativeVolumeAdjustmentV2Frame(value) ==
    [frameType |-> "RelativeVolumeAdjustmentV2Frame", identifier |-> ID_RVA2, flags |-> NoFlags,
     value |-> value]

\* value: [involvedPeople: sequence of [role, name]]
InvolvedPeopleListFrame(value) ==
    [frameType |-> "InvolvedPeopleListFrame", identifier |-> ID_IPLS, flags |-> NoFlags, value |-> value]

\* value: [timestampUnit: a byte, tempoCodes: sequence of [tempo, time]]; the
\* constructor sets the identifier MLLT
SynchronisedTempoCodesFrame(value) ==
    [frameType |-> "SynchronisedTempoCodesFrame", identifier |-> ID_MLLT, flags |-> NoFlags,
     value |-> value]

\* value: [language, description, value], each a text
CommentFrame(value) ==
    [frameType |-> "CommentFrame", identifier |-> ID_COMM, flags |-> NoFlags, value |-> value]

addedInV3 == {<<84, 82, 83, 78>>, <<84, 82, 83, 79>>}   \* TRSN TRSO

\* TDEN TDOR TDRC TDRL TDTG TIPL TMCL TMOO TPRO TSOA TSOP TSOT TSST
addedInV4 == {
    <<84, 68, 69, 78>>, <<84, 68, 79, 82>>, <<84, 68, 82, 67>>, <<84, 68, 82, 76>>,
    <<84, 68, 84, 71>>, <<84, 73, 80, 76>>, <<84, 77, 67, 76>>, <<84, 77, 79, 79>>,
    <<84, 80, 82, 79>>, <<84, 83, 79, 65>>, <<84, 83, 79, 80>>, <<84, 83, 79, 84>>,
    <<84, 83, 83, 84>>}

\* TDAT TIME TORY TRDA TSIZ TYER
removedInV4 == {
    <<84, 68, 65, 84>>, <<84, 73, 77, 69>>, <<84, 79, 82, 89>>, <<84, 82, 68, 65>>,
    <<84, 83, 73, 90>>, <<84, 89, 69, 82>>}

\* the version test of a frame either returns an IVersionSupport or throws
Returned(support) == [threw |-> FALSE, supportsVersion |-> support.supportsVersion, reason |-> support.reason]
Threw == [threw |-> TRUE, supportsVersion |-> FALSE, reason |-> ""]

TextInformationFrame_contentSupportsVersion(frame, version) ==
    IF version = 2 /\ frame.identifier \in addedInV3
    THEN Returned(Unsupported("This frame is only supported in ID3v2.3+"))
    ELSE IF version = 2 /\ frame.identifier \in addedInV4
    THEN Returned(Unsupported("This frame is only supported in ID3v2.4"))
    ELSE IF version = 3 /\ frame.identifier \in addedInV4
    THEN Returned(Unsupported("This frame is only supported in ID3v2.4"))
    ELSE IF version = 4 /\ getCorrectIdentifierThrows(frame.identifier, 3)
    THEN Threw
    ELSE IF version = 4 /\ getCorrectIdentifier(frame.identifier, 3) \in removedInV4
    THEN Returned(Unsupported("This frame was removed in ID3v2.4"))
    ELSE Returned(Supported)

ReverbFrame_contentSupportsVersion(frame, version) == Returned(Supported)

EqualisationFrame_contentSupportsVersion(frame, version) ==
    IF version = 4 THEN Returned(Unsupported("Equalisation frame is not supported in ID3v2.4"))
    ELSE Returned(Supported)

EqualisationFrameV2_contentSupportsVersion(frame, version) ==
    IF version = 4 THEN Returned(Supported)
    ELSE Returned(Unsupported("Equalisation v2 frames are only supported in ID3v2.4"))

RelativeVolumeAdjustmentFrame_contentSupportsVersion(frame, version) ==
    IF version = 4
    THEN Returned(Unsupported("Relative volume adjustment frame is not supported in ID3v2.4"))
    ELSE IF version = 2 /\ (\/ frame.value.bass.defined \/ frame.value.center.defined
                            \/ frame.value.leftBack.defined \/ frame.value.rightBack.defined)
    THEN Returned(Unsupported("ID3v2.2 does not support the inclusion of bass, center, or back channels in the relative volume adjustment frame"))
    ELSE Returned(Supported)

RelativeVolumeAdjustmentV2Frame_contentSupportsVersion(frame, version) ==
    IF version = 4 THEN Returned(Supported)
    ELSE Returned(Unsupported("Relative volume adjustment v2 frames are only supported in ID3v2.4"))

InvolvedPeopleListFrame_contentSupportsVersion(frame, version) ==
    IF version = 4 THEN Returned(Unsupported("Involved people list frame is not supported in ID3v2.4"))
    ELSE Returned(Supported)

CommentFrame_contentSupportsVersion(frame, version) == Returned(Supported)

contentSupportsVersion(frame, version) ==
    CASE frame.frameType = "CommentFrame" -> CommentFrame_contentSupportsVersion(frame, version)
      [] frame.frameType = "SynchronisedTempoCodesFrame" -> Returned(Supported)
      [] frame.frameType = "TextInformationFrame" ->
            TextInformationFrame_contentSupportsVersion(frame, version)
      [] frame.frameType = "ReverbFrame" -> ReverbFrame_contentSupportsVersion(frame, version)
      [] frame.frameType = "EqualisationFrame" ->
            EqualisationFrame_contentSupportsVersion(frame, version)
      [] frame.frameType = "EqualisationFrameV2" ->
            EqualisationFrameV2_contentSupportsVersion(frame, version)
      [] frame.frameType = "RelativeVolumeAdjustmentFrame" ->
            RelativeVolumeAdjustmentFrame_contentSupportsVersion(frame, version)
      [] frame.frameType = "RelativeVolumeAdjustmentV2Frame" ->
            RelativeVolumeAdjustmentV2Frame_contentSupportsVersion(frame, version)
      [] frame.frameType = "InvolvedPeopleListFrame" ->
            InvolvedPeopleListFrame_contentSupportsVersion(frame, version)

\* the answer of the flags stands when it is a refusal, else the content is asked
FlagsThenContent(byFlags, frame, version) ==
    IF ~ byFlags.supportsVersion THEN Returned(byFlags)
    ELSE contentSupportsVersion(frame, version)

\* Frame.supportsVersion: the flags are asked first, then the content
Frame_supportsVersion(frame, version) ==
    FlagsThenContent(FrameFlagManager_supportsVersion(frame.flags, version), frame, version)

TextInformationFrame_encodeContent(frame, textEncoding) ==
    <<getByteFromName(textEncoding)>> \o encodeText(textEncoding, frame.value)

\* a 12-byte buffer that holds reverbLeft twice, followed by ten more bytes
ReverbFrame_encodeContent(frame) ==
    BytesBE(frame.value[1], 2) \o BytesBE(frame.value[1], 2) \o <<0, 0, 0, 0, 0, 0, 0, 0>>
        \o <<frame.value[3], frame.value[4], frame.value[3], frame.value[4],
             frame.value[5], frame.value[6], frame.value[8], frame.value[7],
             frame.value[9], frame.value[10]>>

\* Math.max(...numbers)
RECURSIVE MaxOf(_)
MaxOf(numbers) ==
    IF Len(numbers) = 1 THEN numbers[1]
    ELSE IF Head(numbers) >= MaxOf(Tail(numbers)) THEN Head(numbers) ELSE MaxOf(Tail(numbers))

\* the width of the adjustments, in bits, then frequency and adjustment of each one
EqualisationFrame_encodeContentWith(adjustments, adjustmentBytes) ==
    <<adjustmentBytes * 8>>
       \o Flatten([i \in 1 .. Len(adjustments) |->
              BytesBE(adjustments[i].frequency + (IF adjustments[i].increment THEN 32768 ELSE 0), 2)
                 \o BytesBE(adjustments[i].adjustment, adjustmentBytes)])

EqualisationFrame_encodeContent(frame) ==
    EqualisationFrame_encodeContentWith(
        frame.value.adjustments,
        ByteWidth(MaxOf([i \in 1 .. Len(frame.value.adjustments) |->
                            frame.value.adjustments[i].adjustment])))

EqualisationFrameV2_encodeContent(frame) ==
    <<frame.value.interpolationMethod>>
       \o Latin1Bytes(frame.value.identification)
       \o <<0>>
       \o Flatten([i \in 1 .. Len(frame.value.adjustments) |->
              BytesBE(frame.value.adjustments[i].frequency, 2)
                 \o BytesBE(frame.value.adjustments[i].volumeAdjustment, 2)])

\* bufferFromNumbers(numbers, bytesPerNumber)
bufferFromNumbersOfWidth(numbers, bytesPerNumber) ==
    Flatten([i \in 1 .. Len(numbers) |-> BytesBE(numbers[i], bytesPerNumber)])

\* the increment flags, the width in bits, then the numbers of the channels: the four
\* channels v2.3 added are written when one of them is given
RelativeVolumeAdjustmentFrame_encodeContentWith(v, bytesForVolDesc) ==
    <<FlagByte_encode(<<FALSE, FALSE, v.bass.increment, v.center.increment, v.leftBack.increment,
                        v.rightBack.increment, v.left.increment, v.right.increment>>, 1),
      bytesForVolDesc * 8>>
       \o bufferFromNumbersOfWidth(
              <<v.right.relativeVolumeAdjustment, v.left.relativeVolumeAdjustment,
                v.right.peakVolume, v.left.peakVolume>>
              \o (IF v.bass.defined \/ v.center.defined \/ v.leftBack.defined \/ v.rightBack.defined
                  THEN <<v.rightBack.relativeVolumeAdjustment, v.leftBack.relativeVolumeAdjustment,
                         v.rightBack.peakVolume, v.leftBack.peakVolume,
                         v.center.relativeVolumeAdjustment, v.center.peakVolume,
                         v.bass.relativeVolumeAdjustment, v.bass.peakVolume>>
                  ELSE << >>),
              bytesForVolDesc)

RelativeVolumeAdjustmentFrame_encodeContent(frame) ==
    RelativeVolumeAdjustmentFrame_encodeContentWith(
        frame.value,
        ByteWidth(MaxOf(<<frame.value.right.peakVolume, frame.value.right.relativeVolumeAdjustment,
                          frame.value.left.peakVolume, frame.value.left.relativeVolumeAdjustment,
                          frame.value.rightBack.peakVolume, frame.value.rightBack.relativeVolumeAdjustment,
                          frame.value.leftBack.peakVolume, frame.value.leftBack.relativeVolumeAdjustment,
                          frame.value.center.peakVolume, frame.value.center.relativeVolumeAdjustment,
                          frame.value.bass.peakVolume, frame.value.bass.relativeVolumeAdjustment>>)))

\* the identification string without a terminator, then channel type, adjustment,
\* width of the peak in bits and the peak of each channel
RelativeVolumeAdjustmentV2Frame_encodeContent(frame) ==
    Utf8Bytes(frame.value.identificationString)
       \o Flatten([i \in 1 .. Len(frame.value.adjustments) |->
              <<frame.value.adjustments[i].channelType>>
                 \o BytesBE(frame.value.adjustments[i].relativeVolumeAdjustment, 2)
                 \o <<ByteWidth(frame.value.adjustments[i].peakVolume) * 8>>
                 \o BytesBE(frame.value.adjustments[i].peakVolume,
                            ByteWidth(frame.value.adjustments[i].peakVolume))])

InvolvedPeopleListFrame_encodeContent(frame, textEncoding) ==
    <<getByteFromName(textEncoding)>>
       \o Flatten([i \in 1 .. Len(frame.value.involvedPeople) |->
              encodeText(textEncoding, frame.value.involvedPeople[i].role)
                 \o terminator(textEncoding)
                 \o encodeText(textEncoding, frame.value.involvedPeople[i].name)
                 \o terminator(textEncoding)])

\* the encoding byte, the language, the description, the terminator and the value
CommentFrame_encodeContent(frame, textEncoding) ==
    <<getByteFromName(textEncoding)>>
       \o Latin1Bytes(frame.value.language)
       \o encodeText(textEncoding, frame.value.description)
       \o terminator(textEncoding)
       \o encodeText(textEncoding, frame.value.value)

\* the tempo descriptor, one byte or 0xFF and a second byte, and the time in four bytes
TempoCodeBytes(tempoCode) ==
    (IF tempoCode.tempo > 255 THEN <<255, (tempoCode.tempo - 255) % 256>>
     ELSE <<tempoCode.tempo % 256>>)
        \o BytesBE(tempoCode.time, 4)

SynchronisedTempoCodesFrame_encodeContent(frame) ==
    <<frame.value.timestampUnit>>
       \o Flatten([i \in 1 .. Len(frame.value.tempoCodes) |-> TempoCodeBytes(frame.value.tempoCodes[i])])

encodeContent(frame, textEncoding) ==
    CASE frame.frameType = "CommentFrame" -> CommentFrame_encodeContent(frame, textEncoding)
      [] frame.frameType = "SynchronisedTempoCodesFrame" ->
            SynchronisedTempoCodesFrame_encodeContent(frame)
      [] frame.frameType = "TextInformationFrame" ->
            TextInformationFrame_encodeContent(frame, textEncoding)
      [] frame.frameType = "ReverbFrame" -> ReverbFrame_encodeContent(frame)
      [] frame.frameType = "EqualisationFrame" -> EqualisationFrame_encodeContent(frame)
      [] frame.frameType = "EqualisationFrameV2" -> EqualisationFrameV2_encodeContent(frame)
      [] frame.frameType = "RelativeVolumeAdjustmentFrame" ->
            RelativeVolumeAdjustmentFrame_encodeContent(frame)
      [] frame.frameType = "RelativeVolumeAdjustmentV2Frame" ->
            RelativeVolumeAdjustmentV2Frame_encodeContent(frame)
      [] frame.frameType = "InvolvedPeopleListFrame" ->
            InvolvedPeopleListFrame_encodeContent(frame, textEncoding)

\* the ID3v2.2 branch of Frame.encode: a 6-byte header, the frame object is not touched
Frame_encodeV2(frame, contentBuffer) ==
    [threw |-> FALSE,
     bytes |-> getCorrectIdentifier(frame.identifier, 2)
                  \o BytesBE(SynchsafeInteger_encode(Len(contentBuffer)), 3)
                  \o contentBuffer,
     frame |-> frame]

\* the other branch: an 8-byte header and the two flag bytes; `flags` is what the flag
\* manager holds once setDefaultFlags has run for a frame that had none
Frame_encodeV3(frame, ID3Version, contentBuffer, flags) ==
    [threw |-> FALSE,
     bytes |-> getCorrectIdentifier(frame.identifier, 3)
                  \o BytesBE(SynchsafeInteger_encode(Len(contentBuffer)), 4)
                  \o FrameFlagManager_encode(flags, ID3Version)
                  \o contentBuffer,
     frame |-> [frame EXCEPT !.flags = flags]]

\* Frame.encode: the bytes of the frame, and the frame object as the call leaves it
Frame_encode(frame, ID3Version, textEncoding) ==
    IF getCorrectIdentifierThrows(frame.identifier, ID3Version)
    THEN [threw |-> TRUE, bytes |-> << >>, frame |-> frame]
    ELSE IF ID3Version = 2
    THEN Frame_encodeV2(frame, encodeContent(frame, textEncoding))
    ELSE Frame_encodeV3(frame, ID3Version, encodeContent(frame, textEncoding),
                        IF frame.flags.defined THEN frame.flags
                        ELSE setDefaultFlags(getCorrectIdentifier(frame.identifier, ID3Version), ID3Version))

-----------------------------------------------------------------------------
(* Encoding options.  An absent option is ID3Version 0, textEncoding        *)
(* "none", crcData -1, tagRestrictions.present FALSE, or a false boolean.   *)

NoRestrictions ==
    [present |-> FALSE, tagSize |-> 0, textEncoding |-> 0, textFieldSize |-> 0,
     imageEncoding |-> 0, imageSize |-> 0]

NoOptions ==
    [called |-> TRUE, ID3Version |-> 0, textEncoding |-> "none", unsynchronisation |-> FALSE,
     experimental |-> FALSE, tagIsAnUpdate |-> FALSE, crcData |-> -1,
     tagRestrictions |-> NoRestrictions]

\* the per-version defaults of the text encoding
defaultEncodingOptions(version) == IF version = 4 THEN "UTF-8" ELSE "ISO-8859-1"

\* textEncoding.substr(0, 5)
FirstFive(textEncoding) ==
    CASE textEncoding = "ISO-8859-1" -> "ISO-8"
      [] textEncoding = "UTF-16" -> "UTF-1"
      [] textEncoding = "UTF-16BE" -> "UTF-1"
      [] textEncoding = "UTF-8" -> "UTF-8"
      [] OTHER -> ""

\* one entry of the reasons array: what was rejected, the version the text of the
\* message names ("... ID3v2.<names> ..."), and why
FrameReason(frame, version, why) == [source |-> frame.frameType, names |-> version, reason |-> why]
OptionReason(named, option) == [source |-> "option", names |-> named, reason |-> option]

\* what the loop pushes for one frame
ReasonIfUnsupported(frame, version, versionSupport) ==
    IF ~ versionSupport.supportsVersion
    THEN <<FrameReason(frame, version, versionSupport.reason)>> ELSE << >>

RECURSIVE FrameReasons(_, _)
FrameReasons(fs, version) ==
    IF fs = << >> THEN << >>
    ELSE ReasonIfUnsupported(Head(fs), version, Frame_supportsVersion(Head(fs), version))
            \o FrameReasons(Tail(fs), version)

OptionReasonsV2(o) ==
    (IF o.textEncoding # "none" /\ FirstFive(o.textEncoding) = "utf16"
        THEN <<OptionReason(2, "textEncoding")>> ELSE << >>)
    \o (IF o.experimental THEN <<OptionReason(2, "experimental")>> ELSE << >>)
    \o (IF o.tagIsAnUpdate THEN <<OptionReason(2, "tagIsAnUpdate")>> ELSE << >>)
    \o (IF o.crcData # -1 THEN <<OptionReason(2, "crcData")>> ELSE << >>)
    \o (IF o.tagRestrictions.present THEN <<OptionReason(2, "tagRestrictions")>> ELSE << >>)

OptionReasonsV3(o) ==
    (IF o.textEncoding # "none" /\ FirstFive(o.textEncoding) = "utf16"
        THEN <<OptionReason(3, "textEncoding")>> ELSE << >>)
    \o (IF o.tagIsAnUpdate THEN <<OptionReason(3, "tagIsAnUpdate")>> ELSE << >>)
    \* the message of this branch reads "ID3v2.2 does not support the inclusion of ..."
    \o (IF o.tagRestrictions.present THEN <<OptionReason(2, "tagRestrictions")>> ELSE << >>)

\* the reasons of the options, by version
OptionReasons(version, o) ==
    CASE version = 2 -> OptionReasonsV2(o)
      [] version = 3 -> OptionReasonsV3(o)
      [] version = 4 -> << >>

\* the object isVersionSupported returns for the reasons it collected
VersionSupport(reasonsForVersionNotSupported) ==
    [threw |-> FALSE,
     supported |-> reasonsForVersionNotSupported = << >>,
     reasons |-> reasonsForVersionNotSupported]

\* a version test that returns at its first reason instead of collecting them
isVersionSupportedFirstReasonOnly(version, fs, o) ==
    IF \E i \in 1 .. Len(fs) : Frame_supportsVersion(fs[i], version).threw
    THEN [threw |-> TRUE, supported |-> FALSE, reasons |-> << >>]
    ELSE LET all == FrameReasons(fs, version) \o OptionReasons(version, o)
         IN VersionSupport(IF all = << >> THEN << >> ELSE <<Head(all)>>)
\* isVersionSupported: throws when a frame's version test throws
isVersionSupported(version, fs, o) ==
    IF \E i \in 1 .. Len(fs) : Frame_supportsVersion(fs[i], version).threw
    THEN [threw |-> TRUE, supported |-> FALSE, reasons |-> << >>]
    ELSE VersionSupport(FrameReasons(fs, version) \o OptionReasons(version, o))

-----------------------------------------------------------------------------
(* TagHeaderEncoder *)

InInt16(v) == v >= -32768 /\ v <= 32767

RECURSIVE SumWidths(_)
SumWidths(numbers) ==
    IF numbers = << >> THEN 0 ELSE ByteWidth(Head(numbers)) + SumWidths(Tail(numbers))

\* bufferFromNumbers(numbers) without bytesPerNumber: reduce has no initial value, so
\* the first number itself starts the sum of the widths
bufferSize(numbers) == Head(numbers) + SumWidths(Tail(numbers))

\* buffer.writeIntBE(num, offset, byteLength) throws for a byteLength of 0, for a
\* number that does not fit a signed integer of that width and for a write past the end
RECURSIVE WritesThrow(_, _, _)
WritesThrow(numbers, offset, size) ==
    IF numbers = << >> THEN FALSE
    ELSE LET byteLength == ByteWidth(Head(numbers))
         IN \/ byteLength = 0
            \/ Head(numbers) >= Pow2(8 * byteLength - 1)
            \/ offset + byteLength > size
            \/ WritesThrow(Tail(numbers), offset + byteLength, size)

bufferFromNumbersThrows(numbers) == WritesThrow(numbers, 0, bufferSize(numbers))

bufferFromNumbers(numbers) ==
    LET written == Flatten([i \in 1 .. Len(numbers) |-> BytesBE(numbers[i], ByteWidth(numbers[i]))])
    IN written \o [i \in 1 .. (bufferSize(numbers) - Len(written)) |-> 0]

requiresExtendedHeader(o) ==
    CASE o.ID3Version = 2 -> FALSE
      [] o.ID3Version = 3 -> o.crcData # -1
      [] o.ID3Version = 4 -> o.tagIsAnUpdate \/ o.crcData # -1 \/ o.tagRestrictions.present

\* generateExtendedHeaderV3 allocates 10 bytes, then writes 32768 as a signed 16-bit
\* integer and the CRC at offset 10: both writes throw a RangeError
generateExtendedHeaderV3Throws(o) == ~ InInt16(32768) \/ 10 + 4 > 10

generateExtendedHeaderV4Throws(o) ==
    LET flagByte == FlagByte_encode(<<FALSE, o.tagIsAnUpdate, o.crcData # -1, o.tagRestrictions.present>>, 1)
    IN \/ bufferFromNumbersThrows(<<1, flagByte>>)
       \/ o.tagIsAnUpdate /\ bufferFromNumbersThrows(<<0>>)

\* the buffers generateExtendedHeaderV4 collects, concatenated
extendedHeaderExcludingSize(o, r) ==
    bufferFromNumbers(<<1, FlagByte_encode(<<FALSE, o.tagIsAnUpdate, o.crcData # -1, r.present>>, 1)>>)
    \o (IF o.tagIsAnUpdate THEN bufferFromNumbers(<<0>>) ELSE << >>)
    \o (IF o.crcData # -1 THEN <<5>> \o BytesBE(SynchsafeInteger_encode(o.crcData), 5) ELSE << >>)
    \o (IF r.present
        THEN <<1, r.tagSize * 64 + r.textEncoding * 32 + r.textFieldSize * 8
                      + r.imageEncoding * 4 + r.imageSize>>
        ELSE << >>)

\* the size of the rest, as a plain 32-bit integer, goes in front
WithSizeBuffer(rest) == BytesBE(Len(rest), 4) \o rest

\* unsynchronisation of the extended header when the option asks for it
UnsynchronisedIfAsked(o, extendedHeaderBuffer) ==
    IF o.unsynchronisation THEN Unsynchronisation_encode(extendedHeaderBuffer) ELSE extendedHeaderBuffer

generateExtendedHeaderV4(o) ==
    UnsynchronisedIfAsked(o, WithSizeBuffer(extendedHeaderExcludingSize(o, o.tagRestrictions)))

generateFlagByte(o) ==
    IF o.ID3Version = 2 THEN FlagByte_encode(<<o.unsynchronisation>>, 1)
    ELSE FlagByte_encode(<<o.unsynchronisation, requiresExtendedHeader(o), o.experimental>>, 1)

TagHeaderEncoder_throws(o) ==
    /\ requiresExtendedHeader(o)
    /\ IF o.ID3Version = 3 THEN generateExtendedHeaderV3Throws(o) ELSE generateExtendedHeaderV4Throws(o)

\* the concatenation TagHeaderEncoder.encode returns
TagHeaderWith(tagSize, o, extendedHeaderBuffer) ==
    ID_ID3 \o <<o.ID3Version, 0, generateFlagByte(o)>>
       \o BytesBE(SynchsafeInteger_encode(tagSize + Len(extendedHeaderBuffer)), 4)
       \o extendedHeaderBuffer

TagHeaderEncoder_encode(tagSize, o) ==
    TagHeaderWith(tagSize, o, IF requiresExtendedHeader(o) THEN generateExtendedHeaderV4(o) ELSE << >>)

-----------------------------------------------------------------------------
(* The tag encoder *)

NoReasons == [v \in 2 .. 4 |-> << >>]

\* what an encode call gives back: the tag, or the error it threw
Thrown(kind, reasons) ==
    [called |-> TRUE, ok |-> FALSE, error |-> kind, reasons |-> reasons,
     version |-> 0, stream |-> << >>, bytes |-> << >>]

RECURSIVE FindVersion(_, _, _, _)

\* one call of the callback of find: the reasons of a rejected version are kept
FindVersionStep(version, fs, o, reasons, versionSupport) ==
    IF versionSupport.threw THEN [threw |-> TRUE, version |-> 0, reasons |-> reasons]
    ELSE IF versionSupport.supported THEN [threw |-> FALSE, version |-> version, reasons |-> reasons]
    ELSE FindVersion(version - 1, fs, o, [reasons EXCEPT ![version] = versionSupport.reasons])

\* [ 4, 3, 2 ].find(...): the versions are tried from `version` down
FindVersion(version, fs, o, reasons) ==
    IF version < 2 THEN [threw |-> FALSE, version |-> 0, reasons |-> reasons]
    ELSE FindVersionStep(version, fs, o, reasons, isVersionSupported(version, fs, o))

\* the encoded frames so far, with one more in front
PrependEncoded(first, rest) ==
    [threw |-> rest.threw,
     bytes |-> first.bytes \o rest.bytes,
     frames |-> <<first.frame>> \o rest.frames]

RECURSIVE EncodeFrames(_, _, _)

\* the loop after frame.encode of the first frame returned or threw
EncodeRest(fs, ID3Version, textEncoding, first) ==
    IF first.threw THEN [threw |-> TRUE, bytes |-> << >>, frames |-> fs]
    ELSE PrependEncoded(first, EncodeFrames(Tail(fs), ID3Version, textEncoding))

\* the frame loop: each frame is encoded in turn, a throw ends the loop
EncodeFrames(fs, ID3Version, textEncoding) ==
    IF fs = << >> THEN [threw |-> FALSE, bytes |-> << >>, frames |-> << >>]
    ELSE EncodeRest(fs, ID3Version, textEncoding, Frame_encode(Head(fs), ID3Version, textEncoding))

\* the tag: header, extended header and frame buffer
EncodeTag(computedEncodingOptions, encodedFrames, frameBuffer) ==
    IF encodedFrames.threw
    THEN [result |-> Thrown("Cannot remap the identifier", NoReasons), frames |-> encodedFrames.frames]
    ELSE IF TagHeaderEncoder_throws(computedEncodingOptions)
    THEN [result |-> Thrown("RangeError", NoReasons), frames |-> encodedFrames.frames]
    ELSE [result |-> [called |-> TRUE, ok |-> TRUE, error |-> "", reasons |-> NoReasons,
                      version |-> computedEncodingOptions.ID3Version, stream |-> frameBuffer,
                      bytes |-> TagHeaderEncoder_encode(Len(frameBuffer), computedEncodingOptions)
                                   \o frameBuffer],
          frames |-> encodedFrames.frames]

\* the unsynchronisation step on the concatenated frames
EncodeTagOf(o, computedEncodingOptions, encodedFrames) ==
    EncodeTag(computedEncodingOptions, encodedFrames,
              IF o.unsynchronisation THEN Unsynchronisation_encode(encodedFrames.bytes)
              ELSE encodedFrames.bytes)

\* the computed options and the frame loop
EncodeWith(fs, o, encodingVersion, textEncoding) ==
    EncodeTagOf(o, [o EXCEPT !.ID3Version = encodingVersion, !.textEncoding = textEncoding],
                EncodeFrames(fs, encodingVersion, textEncoding))

\* the text encoding of the options, or the default of the version
EncodeAt(fs, o, encodingVersion) ==
    EncodeWith(fs, o, encodingVersion,
               IF o.textEncoding # "none" THEN o.textEncoding
               ELSE defaultEncodingOptions(encodingVersion))

\* a pinned version: the check of the target version comes first
EncodePinned(fs, o, targetVersionSupport) ==
    IF targetVersionSupport.threw
    THEN [result |-> Thrown("Cannot remap the identifier", NoReasons), frames |-> fs]
    ELSE IF ~ targetVersionSupport.supported
    THEN [result |-> Thrown("Cannot encode using ID3v2.x",
                            [NoReasons EXCEPT ![o.ID3Version] = targetVersionSupport.reasons]),
          frames |-> fs]
    ELSE EncodeAt(fs, o, o.ID3Version)

\* no pinned version: the result of the search decides
EncodeFound(fs, o, found) ==
    IF found.threw
    THEN [result |-> Thrown("Cannot remap the identifier", NoReasons), frames |-> fs]
    ELSE IF found.version = 0
    THEN [result |-> Thrown("For all versions of the ID3v2 spec", found.reasons), frames |-> fs]
    ELSE EncodeAt(fs, o, found.version)

\* the result of encode(fs, o) and the frame objects as the call leaves them
Encoder(fs, o) ==
    IF o.ID3Version # 0
    THEN EncodePinned(fs, o, isVersionSupported(o.ID3Version, fs, o))
    ELSE EncodeFound(fs, o, FindVersion(4, fs, o, NoReasons))

-----------------------------------------------------------------------------
(* decodeTagHeader *)

NoHeader ==
    [threw |-> TRUE, version |-> 0, headerSize |-> 0, tagSize |-> 0, unsynchronisation |-> FALSE,
     extendedHeader |-> FALSE, experimental |-> FALSE, compression |-> FALSE, footerPresent |-> FALSE]

\* the reads of the extended header of a v2.3 tag stay inside the buffer
ExtendedHeaderV3InRange(buf) ==
    /\ ReadInRange(buf, 10, 4)
    /\ ReadInRange(buf, 14, 4)
    /\ ReadInRange(buf, 14, 2)
    /\ (FlagAt(ToBinaryFlags(ReadIntBE(buf, 14, 2)), 0) => ReadInRange(buf, 20, 4))

\* the reads of the extended header of a v2.4 tag stay inside the buffer
ExtendedHeaderV4InRange(buf) ==
    /\ ReadInRange(buf, 10, 4)
    /\ Len(buf) > 15
    /\ LET extendedFlags == ToBinaryFlags(buf[16])
           flagDataOffset == IF FlagAt(extendedFlags, 1) THEN 21 ELSE 16
       IN /\ (FlagAt(extendedFlags, 1) => ReadInRange(buf, 16, 5))
          /\ (FlagAt(extendedFlags, 2) => Len(buf) > flagDataOffset)

decodeTagHeader(buf) ==
    LET version == At(buf, 3)
        sizeInRange == IF version = 2 THEN ReadInRange(buf, 6, 3) ELSE ReadInRange(buf, 6, 4)
        tagSize == SynchsafeInteger_decode(IF version = 2 THEN ReadIntBE(buf, 6, 3) ELSE ReadIntBE(buf, 6, 4))
        flags == ToBinaryFlags(At(buf, 5))
        extended == version \in {3, 4} /\ FlagAt(flags, 1)
        headerSize == IF extended THEN 10 + SynchsafeInteger_decode(ReadIntBE(buf, 10, 4)) + 4 ELSE 10
    IN IF ~ sizeInRange \/ version \notin {2, 3, 4} THEN NoHeader
       ELSE IF version = 3 /\ extended /\ ~ ExtendedHeaderV3InRange(buf) THEN NoHeader
       ELSE IF version = 4 /\ extended /\ ~ ExtendedHeaderV4InRange(buf) THEN NoHeader
       ELSE [threw |-> FALSE, version |-> version, headerSize |-> headerSize, tagSize |-> tagSize + 10,
             unsynchronisation |-> FlagAt(flags, 0),
             extendedHeader |-> extended,
             experimental |-> version \in {3, 4} /\ FlagAt(flags, 2),
             compression |-> version = 2 /\ FlagAt(flags, 1),
             footerPresent |-> version = 4 /\ FlagAt(flags, 3)]

-----------------------------------------------------------------------------
(* decodeFrameHeader *)

NoFrameHeader ==
    [threw |-> TRUE, headerSize |-> 0, frameSize |-> 0, identifier |-> << >>, flags |-> NoFlags]

decodeFrameHeader(buf, ID3Version) ==
    LET identifierLength == getIdentifierLength(ID3Version)
        identifier == Slice(buf, 0, identifierLength)
        frameSize == SynchsafeInteger_decode(ReadIntBE(buf, identifierLength, identifierLength))
        flags == ToBinaryFlags(ReadIntBE(buf, 8, 2))
        decodedFlags ==
            IF ID3Version = 3
            THEN [defined |-> TRUE,
                  discardOnTagAlteration |-> FlagAt(flags, 0),
                  discardOnFileAlteration |-> FlagAt(flags, 1),
                  readOnly |-> FlagAt(flags, 2),
                  compression |-> FlagAt(flags, 8),
                  encryption |-> FlagAt(flags, 9),
                  groupingIdentity |-> FlagAt(flags, 10),
                  unsynchronisation |-> FALSE,
                  dataLengthIndicator |-> FALSE]
            ELSE [defined |-> TRUE,
                  discardOnTagAlteration |-> FlagAt(flags, 1),
                  discardOnFileAlteration |-> FlagAt(flags, 2),
                  readOnly |-> FlagAt(flags, 3),
                  groupingIdentity |-> FlagAt(flags, 9),
                  compression |-> FlagAt(flags, 12),
                  encryption |-> FlagAt(flags, 13),
                  unsynchronisation |-> FlagAt(flags, 14),
                  dataLengthIndicator |-> FlagAt(flags, 15)]
        headerSize ==
            IF ID3Version = 2 THEN 6
            ELSE 10 + (IF decodedFlags.groupingIdentity THEN 1 ELSE 0)
                    + (IF decodedFlags.compression /\ ID3Version = 3 THEN 4 ELSE 0)
                    + (IF decodedFlags.encryption THEN 1 ELSE 0)
                    + (IF decodedFlags.dataLengthIndicator THEN 4 ELSE 0)
    IN IF ~ ReadInRange(buf, identifierLength, identifierLength) THEN NoFrameHeader
       ELSE IF ID3Version > 2 /\ ~ ReadInRange(buf, 8, 2) THEN NoFrameHeader
       ELSE [threw |-> FALSE,
             headerSize |-> headerSize,
             frameSize |-> frameSize + (IF ID3Version = 2 THEN 6 ELSE 10),
             identifier |-> identifier,
             flags |-> IF ID3Version = 2 THEN NoFlags ELSE decodedFlags]

-----------------------------------------------------------------------------
(* Decoder *)

\* Frame.decodeHeader: the identifier and the flags of the frame come from its header
\* new TextInformationFrame(data, ID3Version)
TextInformationFrame_decode(frameData, ID3Version) ==
    LET headerInfo == decodeFrameHeader(frameData, ID3Version)
        encodingByte == At(frameData, headerInfo.headerSize)
    IN IF headerInfo.threw \/ ~ ValidEncodingByte(encodingByte)
       THEN [threw |-> TRUE, frame |-> TextInformationFrame(<< >>, << >>)]
       ELSE [threw |-> FALSE,
             frame |-> [frameType |-> "TextInformationFrame",
                        identifier |-> headerInfo.identifier,
                        flags |-> headerInfo.flags,
                        value |-> decodeText(getNameFromByte(encodingByte),
                                             Slice(frameData, headerInfo.headerSize + 1, Len(frameData)))]]

\* new URLLinkFrame(data, ID3Version)
URLLinkFrame_decode(frameData, ID3Version) ==
    LET headerInfo == decodeFrameHeader(frameData, ID3Version)
    IN IF headerInfo.threw
       THEN [threw |-> TRUE, frame |-> TextInformationFrame(<< >>, << >>)]
       ELSE [threw |-> FALSE,
             frame |-> [frameType |-> "URLLinkFrame",
                        identifier |-> headerInfo.identifier,
                        flags |-> headerInfo.flags,
                        value |-> Latin1Text(Slice(frameData, headerInfo.headerSize, Len(frameData)))]]

\* buf.indexOf(pattern, i); -1 when the pattern is absent
RECURSIVE IndexOfFrom(_, _, _)
IndexOfFrom(buf, pattern, i) ==
    IF i + Len(pattern) > Len(buf) THEN -1
    ELSE IF Slice(buf, i, i + Len(pattern)) = pattern THEN i
    ELSE IndexOfFrom(buf, pattern, i + 1)

\* the description and the value of a comment, split at splitPoint: a splitPoint of -1
\* (no terminator found) makes slice(start, -1) end one byte before the end
CommentValueWith(dataOrValue, headerSize, encodingName, language, splitPoint) ==
    [language |-> language,
     description |-> decodeText(encodingName,
                                Slice(dataOrValue, headerSize + 4,
                                      IF splitPoint < 0 THEN Len(dataOrValue) + splitPoint ELSE splitPoint)),
     value |-> decodeText(encodingName,
                          Slice(dataOrValue, splitPoint + Len(terminator(encodingName)), Len(dataOrValue)))]

\* the body of the constructor once the encoding is known: dataOrValue.indexOf(terminator, ...)
CommentValue(dataOrValue, headerSize, encodingName) ==
    CommentValueWith(dataOrValue, headerSize, encodingName,
                     Latin1Text(Slice(dataOrValue, headerSize + 1, headerSize + 4)),
                     IndexOfFrom(dataOrValue, terminator(encodingName), headerSize + 4))

\* new CommentFrame(data, ID3Version)
CommentFrame_decodeWith(frameData, headerInfo, encodingByte) ==
    IF headerInfo.threw \/ ~ ValidEncodingByte(encodingByte)
    THEN [threw |-> TRUE, frame |-> TextInformationFrame(<< >>, << >>)]
    ELSE [threw |-> FALSE,
          frame |-> [frameType |-> "CommentFrame",
                     identifier |-> headerInfo.identifier,
                     flags |-> headerInfo.flags,
                     value |-> CommentValue(frameData, headerInfo.headerSize, getNameFromByte(encodingByte))]]

CommentFrame_decodeOf(frameData, headerInfo) ==
    CommentFrame_decodeWith(frameData, headerInfo, At(frameData, headerInfo.headerSize))

CommentFrame_decode(frameData, ID3Version) ==
    CommentFrame_decodeOf(frameData, decodeFrameHeader(frameData, ID3Version))

\* the loop of the SynchronisedTempoCodesFrame constructor from index i: a tempo byte of
\* 0xFF has the next byte added to it and moves the index on by one; readInt32BE throws
\* when four bytes are not left
RECURSIVE TempoCodesFrom(_, _)
TempoCodesFrom(dataOrValue, i) ==
    IF i >= Len(dataOrValue) THEN [threw |-> FALSE, tempoCodes |-> << >>]
    ELSE LET wide == At(dataOrValue, i) = 255
             at == IF wide THEN i + 1 ELSE i
         IN IF ~ ReadInRange(dataOrValue, at + 1, 4) THEN [threw |-> TRUE, tempoCodes |-> << >>]
            ELSE LET rest == TempoCodesFrom(dataOrValue, at + 5)
                 IN [threw |-> rest.threw,
                     tempoCodes |->
                        <<[tempo |-> IF wide THEN 255 + At(dataOrValue, i + 1) ELSE At(dataOrValue, i),
                           time |-> ReadIntBE(dataOrValue, at + 1, 4)]>> \o rest.tempoCodes]

\* new SynchronisedTempoCodesFrame(data, ID3Version); new TimestampUnit(byte) throws for
\* a byte other than 1 and 2
SynchronisedTempoCodesFrame_decodeWith(frameData, headerInfo, tempoCodes) ==
    IF headerInfo.threw \/ At(frameData, headerInfo.headerSize) \notin {1, 2} \/ tempoCodes.threw
    THEN [threw |-> TRUE, frame |-> SynchronisedTempoCodesFrame([timestampUnit |-> 0, tempoCodes |-> << >>])]
    ELSE [threw |-> FALSE,
          frame |-> [frameType |-> "SynchronisedTempoCodesFrame",
                     identifier |-> headerInfo.identifier,
                     flags |-> headerInfo.flags,
                     value |-> [timestampUnit |-> At(frameData, headerInfo.headerSize),
                                tempoCodes |-> tempoCodes.tempoCodes]]]

SynchronisedTempoCodesFrame_decodeOf(frameData, headerInfo) ==
    SynchronisedTempoCodesFrame_decodeWith(frameData, headerInfo,
        IF headerInfo.threw THEN [threw |-> TRUE, tempoCodes |-> << >>]
        ELSE TempoCodesFrom(frameData, headerInfo.headerSize + 1))

SynchronisedTempoCodesFrame_decode(frameData, ID3Version) ==
    SynchronisedTempoCodesFrame_decodeOf(frameData, decodeFrameHeader(frameData, ID3Version))

\* the identifiers of the switch of decodeFrame, with the class each one constructs:
\* UFI UFID, TXX TXXX, WXX WXXX, IPL IPLS, MCI MCDI, ETC ETCO, MLL MLLT, STC SYTC,
\* ULT USLT, SLT SYLT, COM COMM
dispatchTable == <<
    <<<<85, 70, 73>>, "UFIDFrame">>, <<<<85, 70, 73, 68>>, "UFIDFrame">>,
    <<<<84, 88, 88>>, "UserDefinedTextInformationFrame">>,
    <<<<84, 88, 88, 88>>, "UserDefinedTextInformationFrame">>,
    <<<<87, 88, 88>>, "UserDefinedURLLinkFrame">>, <<<<87, 88, 88, 88>>, "UserDefinedURLLinkFrame">>,
    <<<<73, 80, 76>>, "InvolvedPeopleListFrame">>, <<<<73, 80, 76, 83>>, "InvolvedPeopleListFrame">>,
    <<<<77, 67, 73>>, "MusicCDIdentifierFrame">>, <<<<77, 67, 68, 73>>, "MusicCDIdentifierFrame">>,
    <<<<69, 84, 67>>, "EventTimingCodesFrame">>, <<<<69, 84, 67, 79>>, "EventTimingCodesFrame">>,
    <<<<77, 76, 76>>, "MPEGLocationLookupTableFrame">>, <<<<77, 76, 76, 84>>, "MPEGLocationLookupTableFrame">>,
    <<<<83, 84, 67>>, "SynchronisedTempoCodesFrame">>, <<<<83, 89, 84, 67>>, "SynchronisedTempoCodesFrame">>,
    <<<<85, 76, 84>>, "UnsynchronisedLyricsFrame">>, <<<<85, 83, 76, 84>>, "UnsynchronisedLyricsFrame">>,
    <<<<83, 76, 84>>, "SynchronisedLyricsFrame">>, <<<<83, 89, 76, 84>>, "SynchronisedLyricsFrame">>,
    <<<<67, 79, 77>>, "CommentFrame">>, <<<<67, 79, 77, 77>>, "CommentFrame">>
>>

\* the class decodeFrame constructs for an identifier; "" when it throws "Unsupported frame type"
dispatch(identifier) ==
    IF At(identifier, 0) = 84 /\ identifier \notin {ID_TXX, ID_TXXX} THEN "TextInformationFrame"
    ELSE IF At(identifier, 0) = 87 /\ identifier \notin {ID_WXX, ID_WXXX} THEN "URLLinkFrame"
    ELSE IF \E i \in 1 .. Len(dispatchTable) : dispatchTable[i][1] = identifier
         THEN dispatchTable[CHOOSE i \in 1 .. Len(dispatchTable) : dispatchTable[i][1] = identifier][2]
         ELSE ""

\* decodeFrame; the body of a class other than the three named is kept as its raw bytes
decodeFrame(frameHeader, frameData, ID3Version) ==
    LET frameType == dispatch(frameHeader.identifier)
    IN IF frameType = "" THEN [threw |-> TRUE, frame |-> TextInformationFrame(<< >>, << >>)]
       ELSE IF frameType = "TextInformationFrame" THEN TextInformationFrame_decode(frameData, ID3Version)
       ELSE IF frameType = "URLLinkFrame" THEN URLLinkFrame_decode(frameData, ID3Version)
       ELSE IF frameType = "CommentFrame" THEN CommentFrame_decode(frameData, ID3Version)
       ELSE [threw |-> FALSE,
             frame |-> [frameType |-> frameType,
                        identifier |-> frameHeader.identifier,
                        flags |-> frameHeader.flags,
                        value |-> Slice(frameData, frameHeader.headerSize, Len(frameData))]]

\* the frame loop of Decoder.decode, from read index `index`
RECURSIVE DecodeFrames(_, _, _)
DecodeFrames(framesData, index, ID3Version) ==
    IF ~ (index < Len(framesData) /\ ~ (At(framesData, index) = 0 /\ At(framesData, index + 1) = 0))
    THEN [threw |-> FALSE, frames |-> << >>]
    ELSE LET frameHeader == decodeFrameHeader(Slice(framesData, index, Len(framesData)), ID3Version)
             frame == decodeFrame(frameHeader,
                                  Slice(framesData, index, index + frameHeader.frameSize), ID3Version)
         IN IF frameHeader.threw \/ frame.threw THEN [threw |-> TRUE, frames |-> << >>]
            ELSE LET rest == DecodeFrames(framesData, index + frameHeader.frameSize, ID3Version)
                 IN [threw |-> rest.threw,
                     frames |-> IF rest.threw THEN << >> ELSE <<frame.frame>> \o rest.frames]

NotDecoded == [called |-> FALSE, ok |-> FALSE, header |-> NoHeader, frames |-> << >>]

Decoder_decode(buf) ==
    LET tagOffset == IndexOfFrom(buf, ID_ID3, 0)
        tagHeader == decodeTagHeader(Slice(buf, tagOffset, Len(buf)))
        unsynchronisedFrameData == Slice(buf, tagOffset + tagHeader.headerSize, tagOffset + tagHeader.tagSize)
        framesData == IF tagHeader.unsynchronisation THEN Unsynchronisation_decode(unsynchronisedFrameData)
                      ELSE unsynchronisedFrameData
        decodedFrames == DecodeFrames(framesData, 0, tagHeader.version)
    IN IF tagOffset = -1 \/ tagHeader.threw \/ decodedFrames.threw
       THEN [called |-> TRUE, ok |-> FALSE, header |-> NoHeader, frames |-> << >>]
       ELSE [called |-> TRUE, ok |-> TRUE, header |-> tagHeader, frames |-> decodedFrames.frames]

-----------------------------------------------------------------------------
(* The byte utilities called on their own *)

NoCodec ==
    /\ frames = << >>
    /\ built = << >>
    /\ opts = [called |-> FALSE]
    /\ result = [called |-> FALSE]
    /\ tag = << >>
    /\ padding = 0
    /\ decoded = [called |-> FALSE]

\* bytes that matter to the transform: 0x00, an ordinary byte, 0xE0, 0xFF
UnsyncBytes == {0, 1, 224, 255}

RECURSIVE SeqsUpTo(_, _)
SeqsUpTo(S, n) ==
    IF n = 0 THEN {<< >>}
    ELSE LET shorter == SeqsUpTo(S, n - 1)
         IN shorter \cup {Append(q, x) : q \in {r \in shorter : Len(r) = n - 1}, x \in S}

InitUnsync ==
    /\ phase = "input"
    /\ data \in SeqsUpTo(UnsyncBytes, MaxBufLen)
    /\ unsynced = << >>
    /\ resynced = << >>
    /\ num = 0 /\ synchsafe = 0 /\ desynched = 0
    /\ NoCodec
    /\ arg = [called |-> FALSE] /\ ret = [called |-> FALSE]

UnsyncEncode ==
    /\ phase = "input"
    /\ unsynced' = Unsynchronisation_encode(data)
    /\ phase' = "encoded"
    /\ UNCHANGED <<data, resynced, codecVars, synchVars, askVars>>

UnsyncDecode ==
    /\ phase = "encoded"
    /\ resynced' = Unsynchronisation_decode(unsynced)
    /\ phase' = "decoded"
    /\ UNCHANGED <<data, unsynced, codecVars, synchVars, askVars>>

NextUnsync == UnsyncEncode \/ UnsyncDecode

SpecUnsync == InitUnsync /\ [][NextUnsync]_vars

\* sample values of one seven-bit group, from 0 to 127
Septets == {(i * 127) \div (SynchSamples - 1) : i \in 0 .. (SynchSamples - 1)}

\* numbers below 2^28 built from four sampled seven-bit groups
SynchInputs ==
    {a * Pow2(21) + b * Pow2(14) + c * Pow2(7) + d : a \in Septets, b \in Septets, c \in Septets, d \in Septets}

InitSynch ==
    /\ phase = "input"
    /\ num \in SynchInputs
    /\ synchsafe = 0
    /\ desynched = 0
    /\ data = << >> /\ unsynced = << >> /\ resynced = << >>
    /\ NoCodec
    /\ arg = [called |-> FALSE] /\ ret = [called |-> FALSE]

SynchEncode ==
    /\ phase = "input"
    /\ synchsafe' = SynchsafeInteger_encode(num)
    /\ phase' = "encoded"
    /\ UNCHANGED <<num, desynched, codecVars, unsyncVars, askVars>>

SynchDecode ==
    /\ phase = "encoded"
    /\ desynched' = SynchsafeInteger_decode(synchsafe)
    /\ phase' = "decoded"
    /\ UNCHANGED <<num, synchsafe, codecVars, unsyncVars, askVars>>

NextSynch == SynchEncode \/ SynchDecode

SpecSynch == InitSynch /\ [][NextSynch]_vars

\* bytes of a size field as a file may hold them, with and without the top bit
RawByteSamples == {0, 1, 127, 128, 255}

InitSynchRaw ==
    /\ phase = "input"
    /\ arg \in [called : {FALSE}, bytes : [1 .. 4 -> RawByteSamples]]
    /\ ret = [called |-> FALSE]
    /\ num = 0 /\ synchsafe = 0 /\ desynched = 0
    /\ data = << >> /\ unsynced = << >> /\ resynced = << >>
    /\ NoCodec

\* SynchsafeInteger.decode(bytes.readInt32BE(0)): the function has no throw statement
SynchDecodeRaw ==
    /\ phase = "input"
    /\ arg' = [arg EXCEPT !.called = TRUE]
    /\ ret' = [called |-> TRUE, threw |-> FALSE,
               value |-> SynchsafeInteger_decode(ReadIntBE(arg.bytes, 0, 4))]
    /\ phase' = "decoded"
    /\ UNCHANGED <<codecVars, unsyncVars, synchVars>>

SpecSynchRaw == InitSynchRaw /\ [][SynchDecodeRaw]_vars

-----------------------------------------------------------------------------
(* FrameFlagManager.supportsVersion called on its own *)

\* the byte utilities are not in use
NoUtility ==
    /\ data = << >> /\ unsynced = << >> /\ resynced = << >>
    /\ num = 0 /\ synchsafe = 0 /\ desynched = 0

\* the flag objects a frame can hold: none, or any setting of the eight flags
FlagSamples ==
    {NoFlags} \cup
    [defined : {TRUE},
     discardOnTagAlteration : BOOLEAN, discardOnFileAlteration : BOOLEAN, readOnly : BOOLEAN,
     compression : BOOLEAN, encryption : BOOLEAN, groupingIdentity : BOOLEAN,
     unsynchronisation : BOOLEAN, dataLengthIndicator : BOOLEAN]

InitFlags ==
    /\ phase = "input"
    /\ arg \in [called : {FALSE}, flags : FlagSamples, version : {0}]
    /\ ret = [called |-> FALSE]
    /\ NoUtility
    /\ NoCodec

\* flagManager.supportsVersion(version)
FlagsSupportsVersion ==
    /\ phase \in {"input", "asked"}
    /\ \E version \in 2 .. 4 :
          /\ arg' = [arg EXCEPT !.called = TRUE, !.version = version]
          /\ ret' = FrameFlagManager_supportsVersion(arg.flags, version)
    /\ phase' = "asked"
    /\ UNCHANGED <<codecVars, unsyncVars, synchVars>>

NextFlags == FlagsSupportsVersion

SpecFlags == InitFlags /\ [][NextFlags]_vars

-----------------------------------------------------------------------------
(* Frame.encode and decodeFrameHeader called on their own, on frames whose  *)
(* body has a chosen length                                                 *)

\* the lengths of the text of the frame: every short one, and some around 128 and 256
TextLengths == (0 .. MaxShortText) \cup {126, 127, 128, 254, 255, 300}

\* a frame header as the format of the version lays it out, for a body of n bytes: the
\* identifier, the size (three or four bytes, synchsafe in ID3v2.4 only) and, after
\* ID3v2.2, two flag bytes
WellFormedFrameHeader(n, ID3Version) ==
    getCorrectIdentifier(ID_TIT2, ID3Version)
       \o (CASE ID3Version = 2 -> BytesBE(n, 3)
              [] ID3Version = 3 -> BytesBE(n, 4)
              [] ID3Version = 4 -> <<(n \div 2097152) % 128, (n \div 16384) % 128,
                                     (n \div 128) % 128, n % 128>>)
       \o (IF ID3Version = 2 THEN << >> ELSE <<0, 0>>)

InitFrameSize ==
    /\ phase = "input"
    /\ arg \in [called : {FALSE}, length : TextLengths, version : {0}]
    /\ ret = [called |-> FALSE]
    /\ NoUtility
    /\ NoCodec

\* new TextInformationFrame("TIT2", text).encode({ID3Version, textEncoding: "ISO-8859-1"})
FrameEncode ==
    /\ phase = "input"
    /\ \E version \in 2 .. 4 :
          /\ arg' = [arg EXCEPT !.called = TRUE, !.version = version]
          /\ ret' = [called |-> TRUE,
                     bytes |-> Frame_encode(TextInformationFrame(ID_TIT2, [i \in 1 .. arg.length |-> 65]),
                                            version, "ISO-8859-1").bytes]
    /\ phase' = "written"
    /\ UNCHANGED <<codecVars, unsyncVars, synchVars>>

\* decodeFrameHeader(header, ID3Version) of the well-formed header of a frame whose
\* body is the encoding byte and the text
FrameHeaderDecode ==
    /\ phase = "input"
    /\ \E version \in 2 .. 4 :
          /\ arg' = [arg EXCEPT !.called = TRUE, !.version = version]
          /\ ret' = [called |-> TRUE,
                     bytes |-> WellFormedFrameHeader(arg.length + 1, version),
                     header |-> decodeFrameHeader(WellFormedFrameHeader(arg.length + 1, version), version)]
    /\ phase' = "read"
    /\ UNCHANGED <<codecVars, unsyncVars, synchVars>>

NextFrameSize == FrameEncode \/ FrameHeaderDecode

SpecFrameSize == InitFrameSize /\ [][NextFrameSize]_vars

-----------------------------------------------------------------------------
(* Frame.encode of a frame that holds flags, and decodeFrameHeader of the   *)
(* bytes it returned                                                        *)

\* frame.flags = flags; frame.encode({ID3Version, textEncoding: "ISO-8859-1"})
FlaggedFrameEncode ==
    /\ phase = "input"
    /\ arg.flags.defined
    /\ \E version \in 3 .. 4 :
          /\ arg' = [arg EXCEPT !.called = TRUE, !.version = version]
          /\ ret' = [called |-> TRUE,
                     bytes |-> Frame_encode([TextInformationFrame(ID_TIT2, <<65>>) EXCEPT !.flags = arg.flags],
                                            version, "ISO-8859-1").bytes,
                     header |-> NoFrameHeader]
    /\ phase' = "written"
    /\ UNCHANGED <<codecVars, unsyncVars, synchVars>>

\* decodeFrameHeader(bytes, ID3Version) of the encoded frame
FlaggedFrameHeaderDecode ==
    /\ phase = "written"
    /\ ret' = [ret EXCEPT !.header = decodeFrameHeader(ret.bytes, arg.version)]
    /\ phase' = "read"
    /\ UNCHANGED <<arg, codecVars, unsyncVars, synchVars>>

NextFrameFlags == FlaggedFrameEncode \/ FlaggedFrameHeaderDecode

SpecFrameFlags == InitFlags /\ [][NextFrameFlags]_vars

-----------------------------------------------------------------------------
(* A synchronised tempo codes frame encoded, and constructed again from the bytes *)

\* times a 32-bit field holds: zero, small ones, one with a zero low byte, the largest
TimeSamples == {0, 1, 255, 256, 65536, MaxInt32}

InitTempo ==
    /\ phase = "input"
    /\ arg \in [called : {FALSE}, tempo : 1 .. 510, time : TimeSamples, version : {0}]
    /\ ret = [called |-> FALSE]
    /\ NoUtility
    /\ NoCodec

\* frame.encode({ID3Version}) of a frame with one tempo code, timed in milliseconds
TempoEncode ==
    /\ phase = "input"
    /\ \E version \in 3 .. 4 :
          /\ arg' = [arg EXCEPT !.called = TRUE, !.version = version]
          /\ ret' = [called |-> TRUE,
                     bytes |-> Frame_encode(SynchronisedTempoCodesFrame(
                                   [timestampUnit |-> 2,
                                    tempoCodes |-> <<[tempo |-> arg.tempo, time |-> arg.time]>>]),
                                   version, "ISO-8859-1").bytes,
                     decoded |-> [threw |-> FALSE, frame |-> << >>]]
    /\ phase' = "written"
    /\ UNCHANGED <<codecVars, unsyncVars, synchVars>>

\* new SynchronisedTempoCodesFrame(bytes, ID3Version)
TempoDecode ==
    /\ phase = "written"
    /\ ret' = [ret EXCEPT !.decoded = SynchronisedTempoCodesFrame_decode(ret.bytes, arg.version)]
    /\ phase' = "read"
    /\ UNCHANGED <<arg, codecVars, unsyncVars, synchVars>>

NextTempo == TempoEncode \/ TempoDecode

SpecTempo == InitTempo /\ [][NextTempo]_vars

-----------------------------------------------------------------------------
(* Decoder.decode on buffers no encoder wrote, one iteration of its loop at a time *)

\* the longest body a sampled frame carries
MaxBody == 3

\* a text frame whose header declares `declared` body bytes and that carries `actual`
\* of them: the encoding byte 0x00 and the letter A
RawFrame(declared, actual, ID3Version) ==
    WellFormedFrameHeader(declared, ID3Version)
        \o (IF actual = 0 THEN << >> ELSE <<0>> \o [i \in 1 .. (actual - 1) |-> 65])

\* a frame header whose size bytes are all 0xFF, with nothing after it
RawFrameAllOnes(identifier, ID3Version) ==
    getCorrectIdentifier(identifier, ID3Version)
        \o (IF ID3Version = 2 THEN <<255, 255, 255>> ELSE <<255, 255, 255, 255, 0, 0>>)

RawFrames(ID3Version) ==
    {RawFrame(declared, actual, ID3Version) : declared \in {0, MaxBody}, actual \in {1, MaxBody}}
        \cup {RawFrameAllOnes(identifier, ID3Version) : identifier \in {ID_TIT2, ID_MCDI}}

\* a frame region: no frame, one frame, or two frames
RawRegions(ID3Version) ==
    {<< >>} \cup RawFrames(ID3Version)
        \cup {first \o second : first \in RawFrames(ID3Version), second \in RawFrames(ID3Version)}

\* the ten bytes of a tag header that declares a frame region of n bytes, n < 128: in
\* bytes 6 to 9 as the format has it, or one byte earlier, where the read of three
\* bytes at offset 6 finds it
RawTagHeader(ID3Version, flagByte, n, early) ==
    <<73, 68, 51, ID3Version, 0, flagByte>> \o (IF early THEN <<0, 0, n, 0>> ELSE <<0, 0, 0, n>>)

\* the region declared as long as the frames are, shorter, or longer than the buffer
RawTagOf(ID3Version, flagByte, region, slack, early) ==
    RawTagHeader(ID3Version, flagByte,
                 IF Len(region) + slack < 0 THEN 0 ELSE Len(region) + slack, early) \o region

\* tags of the three versions with no flag set, and ID3v2.2 tags with the flag 0x40; the
\* early place of the size is where the three-byte read of an ID3v2.2 header looks
RawTags ==
    UNION {{RawTagOf(ID3Version, 0, region, slack, FALSE) :
               slack \in {-2, 0, 3}, region \in RawRegions(ID3Version)} : ID3Version \in 2 .. 4}
    \cup {RawTagOf(2, 0, region, slack, TRUE) : slack \in {-2, 0, 3}, region \in RawRegions(2)}
    \cup {RawTagOf(2, 64, region, 0, early) : early \in BOOLEAN, region \in RawRegions(2)}

InitDecodeLoop ==
    /\ phase = "start"
    /\ tag = << >>
    /\ decoded = NotDecoded
    /\ frames = << >> /\ built = << >> /\ padding = 0
    /\ opts = [called |-> FALSE] /\ result = [called |-> FALSE]
    /\ NoUtility
    /\ arg = [called |-> FALSE] /\ ret = [called |-> FALSE]

\* the caller reads a buffer from a file
ReadBuffer ==
    /\ phase = "start"
    /\ tag' \in RawTags
    /\ phase' = "input"
    /\ UNCHANGED <<frames, built, opts, result, padding, decoded, unsyncVars, synchVars, askVars>>

Failed == [called |-> TRUE, ok |-> FALSE, header |-> NoHeader, frames |-> << >>]

\* the frame region of a tag whose header was decoded
FramesDataOf(buf, tagOffset, tagHeader) ==
    IF tagHeader.unsynchronisation
    THEN Unsynchronisation_decode(Slice(buf, tagOffset + tagHeader.headerSize, tagOffset + tagHeader.tagSize))
    ELSE Slice(buf, tagOffset + tagHeader.headerSize, tagOffset + tagHeader.tagSize)

\* Decoder.decode up to its loop
DecodeBeginWith(tagOffset, tagHeader) ==
    IF tagOffset = -1 \/ tagHeader.threw
    THEN /\ decoded' = Failed
         /\ phase' = "threw"
         /\ UNCHANGED ret
    ELSE /\ ret' = [called |-> TRUE, header |-> tagHeader,
                    framesData |-> FramesDataOf(tag, tagOffset, tagHeader),
                    index |-> 0, frames |-> << >>, declared |-> << >>, given |-> << >>]
         /\ phase' = "loop"
         /\ UNCHANGED decoded

DecodeBegin ==
    /\ phase = "input"
    /\ \E tagOffset \in {IndexOfFrom(tag, ID_ID3, 0)} :
          DecodeBeginWith(tagOffset, decodeTagHeader(Slice(tag, tagOffset, Len(tag))))
    /\ UNCHANGED <<frames, built, opts, result, tag, padding, unsyncVars, synchVars, arg>>

\* the condition of the while loop
LoopCondition(framesData, index) ==
    index < Len(framesData) /\ ~ (At(framesData, index) = 0 /\ At(framesData, index + 1) = 0)

\* one iteration: `declared` keeps frameHeader.frameSize and `given` the length of the
\* slice the frame was constructed from
DecodeFrameStepWith(frameHeader, frameData, frame) ==
    IF frameHeader.threw \/ frame.threw
    THEN /\ decoded' = Failed
         /\ phase' = "threw"
         /\ UNCHANGED ret
    ELSE /\ ret' = [ret EXCEPT !.index = @ + frameHeader.frameSize,
                               !.frames = Append(@, frame.frame),
                               !.declared = Append(@, frameHeader.frameSize),
                               !.given = Append(@, Len(frameData))]
         /\ phase' = "loop"
         /\ UNCHANGED decoded

DecodeFrameStepOf(frameHeader, frameData) ==
    DecodeFrameStepWith(frameHeader, frameData, decodeFrame(frameHeader, frameData, ret.header.version))

DecodeFrameStep ==
    /\ phase = "loop"
    /\ LoopCondition(ret.framesData, ret.index)
    /\ \E frameHeader \in {decodeFrameHeader(Slice(ret.framesData, ret.index, Len(ret.framesData)),
                                              ret.header.version)} :
          DecodeFrameStepOf(frameHeader, Slice(ret.framesData, ret.index, ret.index + frameHeader.frameSize))
    /\ UNCHANGED <<frames, built, opts, result, tag, padding, unsyncVars, synchVars, arg>>

\* the return after the loop
DecodeReturn ==
    /\ phase = "loop"
    /\ ~ LoopCondition(ret.framesData, ret.index)
    /\ decoded' = [called |-> TRUE, ok |-> TRUE, header |-> ret.header, frames |-> ret.frames]
    /\ phase' = "returned"
    /\ UNCHANGED <<frames, built, opts, result, tag, padding, unsyncVars, synchVars, askVars>>

NextDecodeLoop == ReadBuffer \/ DecodeBegin \/ DecodeFrameStep \/ DecodeReturn

SpecDecodeLoop == InitDecodeLoop /\ [][NextDecodeLoop]_vars

\* decode is one synchronous call: once entered it runs on
SpecDecodeLoopFair == SpecDecodeLoop /\ WF_vars(NextDecodeLoop)

-----------------------------------------------------------------------------
(* The codec: frames are built and handed to encode any number of times    *)
(* with any options; the bytes of a successful encode are handed to decode, *)
(* as they are or padded, which ends the run                                *)

\* the frames a caller builds with the constructors
FramePool == {
    TextInformationFrame(ID_TIT2, <<65>>),
    TextInformationFrame(ID_TLEN, <<255, 224>>),
    TextInformationFrame(ID_TYER, <<255>>),
    TextInformationFrame(ID_TDRC, <<65>>),
    TextInformationFrame(ID_TCP, <<65>>),
    ReverbFrame(<<1, 2, 3, 4, 5, 6, 7, 8, 9, 10>>)}

\* the text encodings a caller supplies ("none": the option is left out)
TextEncodingSamples == {"none", "ISO-8859-1", "UTF-16BE"}

SampleRestrictions ==
    [present |-> TRUE, tagSize |-> 1, textEncoding |-> 0, textFieldSize |-> 1,
     imageEncoding |-> 0, imageSize |-> 1]

\* the option objects a caller passes: any pinned version or none; a sampled text
\* encoding with or without unsynchronisation (the two options that shape the frame
\* bytes), or one of the options of the tag header with the text encoding left out
EncodingOptionSamples ==
    LET pinned == {[NoOptions EXCEPT !.ID3Version = v] : v \in {0, 2, 3, 4}}
    IN UNION {{[b EXCEPT !.textEncoding = t, !.unsynchronisation = u] :
                    t \in TextEncodingSamples, u \in BOOLEAN}
              \cup {[b EXCEPT !.experimental = TRUE],
                    [b EXCEPT !.tagIsAnUpdate = TRUE],
                    [b EXCEPT !.crcData = 1],
                    [b EXCEPT !.tagRestrictions = SampleRestrictions]} : b \in pinned}

NotEncoded ==
    [called |-> FALSE, ok |-> FALSE, error |-> "", reasons |-> NoReasons,
     version |-> 0, stream |-> << >>, bytes |-> << >>]

Init ==
    /\ phase = "built"
    /\ frames \in SeqsUpTo(FramePool, MaxFrames)
    /\ built = frames
    /\ opts = [NoOptions EXCEPT !.called = FALSE]
    /\ result = NotEncoded
    /\ tag = << >>
    /\ padding = 0
    /\ decoded = NotDecoded
    /\ data = << >> /\ unsynced = << >> /\ resynced = << >>
    /\ num = 0 /\ synchsafe = 0 /\ desynched = 0
    /\ arg = [called |-> FALSE] /\ ret = [called |-> FALSE]

\* encode(frames, encodingOptions)
Encode ==
    /\ phase \in {"built", "encoded"}
    /\ \E o \in EncodingOptionSamples :
          \E call \in {Encoder(frames, o)} :
             /\ opts' = o
             /\ result' = call.result
             /\ frames' = call.frames
             /\ tag' = call.result.bytes
    /\ padding' = 0
    /\ decoded' = NotDecoded
    /\ phase' = "encoded"
    /\ UNCHANGED <<built, unsyncVars, synchVars, askVars>>

\* the tag with k more 0x00 bytes after its last frame, counted in its size field
PadTag(bytes, k) ==
    Slice(bytes, 0, 6)
       \o BytesBE(SynchsafeInteger_encode(SynchsafeInteger_decode(ReadIntBE(bytes, 6, 4)) + k), 4)
       \o Slice(bytes, 10, Len(bytes))
       \o [i \in 1 .. k |-> 0]

\* the tag the last encode call returned is padded before it is handed to decode
Pad ==
    /\ phase = "encoded"
    /\ result.ok
    /\ padding = 0
    /\ \E k \in 1 .. MaxPadding :
          /\ tag' = PadTag(tag, k)
          /\ padding' = k
    /\ phase' = "padded"
    /\ UNCHANGED <<frames, built, opts, result, decoded, unsyncVars, synchVars, askVars>>

\* Decoder.decode(tag) of the tag the last encode call returned
Decode ==
    /\ phase \in {"encoded", "padded"}
    /\ result.ok
    /\ decoded' = Decoder_decode(tag)
    /\ phase' = "decoded"
    /\ UNCHANGED <<frames, built, opts, result, tag, padding, unsyncVars, synchVars, askVars>>

Next == Encode \/ Pad \/ Decode

Spec == Init /\ [][Next]_vars

\* frames whose class decides the versions they can be written in, and one that every
\* version takes
KindPool == {
    TextInformationFrame(ID_TIT2, <<65>>),
    EqualisationFrame([adjustments |-> <<[increment |-> TRUE, frequency |-> 100, adjustment |-> 5]>>]),
    EqualisationFrameV2([interpolationMethod |-> 1, identification |-> <<65>>,
                         adjustments |-> <<[frequency |-> 100, volumeAdjustment |-> 5]>>]),
    RelativeVolumeAdjustmentFrame([right |-> Channel(TRUE, 5, 9), left |-> Channel(FALSE, 3, 7),
                                   leftBack |-> NoChannel, rightBack |-> NoChannel,
                                   center |-> NoChannel, bass |-> NoChannel]),
    RelativeVolumeAdjustmentV2Frame([identificationString |-> <<65>>,
                                     adjustments |-> <<[channelType |-> 1,
                                                        relativeVolumeAdjustment |-> 5,
                                                        peakVolume |-> 9]>>]),
    InvolvedPeopleListFrame([involvedPeople |-> <<[role |-> <<65>>, name |-> <<66>>]>>])}

InitKinds ==
    /\ phase = "built"
    /\ frames \in SeqsUpTo(KindPool, MaxFrames)
    /\ built = frames
    /\ opts = [NoOptions EXCEPT !.called = FALSE]
    /\ result = NotEncoded
    /\ tag = << >>
    /\ padding = 0
    /\ decoded = NotDecoded
    /\ NoUtility
    /\ arg = [called |-> FALSE] /\ ret = [called |-> FALSE]

SpecKinds == InitKinds /\ [][Next]_vars

-----------------------------------------------------------------------------
(* getCorrectIdentifier called on its own, and again on what it returned *)

\* every identifier of the table, and two the table does not hold (XXX and TDRC)
IdentifierSamples ==
    {remappedFrames[i][pos] : i \in 1 .. Len(remappedFrames), pos \in 1 .. 2}
        \cup {<<88, 88, 88>>, <<84, 68, 82, 67>>}

\* the versions an identifier of this length belongs to
VersionsOfIdentifier(identifier) == IF Len(identifier) = 3 THEN {2} ELSE {3, 4}

InitRemap ==
    /\ phase = "input"
    /\ arg \in [called : {FALSE}, identifier : IdentifierSamples, version : {0}, back : {0}]
    /\ ret = [called |-> FALSE]
    /\ NoUtility
    /\ NoCodec

\* getCorrectIdentifier(identifier, version)
Remap ==
    /\ phase = "input"
    /\ \E version \in 2 .. 4 :
          /\ arg' = [arg EXCEPT !.called = TRUE, !.version = version]
          /\ ret' = IF getCorrectIdentifierThrows(arg.identifier, version)
                    THEN [called |-> TRUE, threw |-> TRUE, identifier |-> << >>,
                          backThrew |-> FALSE, back |-> << >>]
                    ELSE [called |-> TRUE, threw |-> FALSE,
                          identifier |-> getCorrectIdentifier(arg.identifier, version),
                          backThrew |-> FALSE, back |-> << >>]
    /\ phase' = "remapped"
    /\ UNCHANGED <<codecVars, unsyncVars, synchVars>>

\* getCorrectIdentifier(remapped, version) for a version the first identifier belongs to
RemapBack ==
    /\ phase = "remapped"
    /\ ~ ret.threw
    /\ \E version \in VersionsOfIdentifier(arg.identifier) :
          /\ arg' = [arg EXCEPT !.back = version]
          /\ ret' = IF getCorrectIdentifierThrows(ret.identifier, version)
                    THEN [ret EXCEPT !.backThrew = TRUE]
                    ELSE [ret EXCEPT !.back = getCorrectIdentifier(ret.identifier, version)]
    /\ phase' = "back"
    /\ UNCHANGED <<codecVars, unsyncVars, synchVars>>

NextRemap == Remap \/ RemapBack

SpecRemap == InitRemap /\ [][NextRemap]_vars

\* comments: descriptions and values of one character, ASCII or not, or none
CommentPool == {
    CommentFrame([language |-> <<101, 110, 103>>, description |-> <<65>>, value |-> <<66>>]),
    CommentFrame([language |-> <<101, 110, 103>>, description |-> << >>, value |-> <<66>>]),
    CommentFrame([language |-> <<101, 110, 103>>, description |-> <<256>>, value |-> <<65>>]),
    TextInformationFrame(ID_TIT2, <<65>>)}

\* the options of a caller who chooses the version and the text encoding only
TextOptionSamples ==
    {[NoOptions EXCEPT !.ID3Version = v, !.textEncoding = t] :
        v \in {0, 2, 3, 4}, t \in {"none"} \cup TextEncodingNames}

InitComment ==
    /\ phase = "built"
    /\ frames \in SeqsUpTo(CommentPool, MaxFrames)
    /\ built = frames
    /\ opts = [NoOptions EXCEPT !.called = FALSE]
    /\ result = NotEncoded
    /\ tag = << >>
    /\ padding = 0
    /\ decoded = NotDecoded
    /\ NoUtility
    /\ arg = [called |-> FALSE] /\ ret = [called |-> FALSE]

\* encode(frames, {ID3Version, textEncoding})
EncodeText ==
    /\ phase \in {"built", "encoded"}
    /\ \E o \in TextOptionSamples :
          \E call \in {Encoder(frames, o)} :
             /\ opts' = o
             /\ result' = call.result
             /\ frames' = call.frames
             /\ tag' = call.result.bytes
    /\ padding' = 0
    /\ decoded' = NotDecoded
    /\ phase' = "encoded"
    /\ UNCHANGED <<built, unsyncVars, synchVars, askVars>>

\* encode(decoded.frames, {ID3Version}) of the frame list decode returned: the tag that
\* was decoded stays in `tag`, the new call and what it returned are in opts and result
Reencode ==
    /\ phase = "decoded"
    /\ decoded.ok
    /\ \E v \in 2 .. 4 :
          \E call \in {Encoder(decoded.frames, [NoOptions EXCEPT !.ID3Version = v])} :
             /\ opts' = [NoOptions EXCEPT !.ID3Version = v]
             /\ result' = call.result
             /\ frames' = call.frames
    /\ phase' = "reencoded"
    /\ UNCHANGED <<built, tag, padding, decoded, unsyncVars, synchVars, askVars>>

NextComment == EncodeText \/ Decode \/ Reencode

SpecComment == InitComment /\ [][NextComment]_vars

-----------------------------------------------------------------------------
(* Properties of the codec *)

\* C1: for a single frame f built by a constructor and options legal for f, decoding
\* the bytes of encode([f], opts) gives a frame list whose first frame has the
\* identifier and the value of f
SingleFrameRoundTrip ==
    (phase = "decoded" /\ padding = 0 /\ Len(built) = 1) =>
        /\ decoded.ok
        /\ Len(decoded.frames) >= 1
        /\ decoded.frames[1].identifier = built[1].identifier
        /\ decoded.frames[1].value = built[1].value

\* C2: for a frame list F that encode accepts, decode(encode(F)) has as many frames as
\* F, and its i-th frame is the i-th frame of F (identifier in the form of the encoded
\* version, same value)
FrameOrderPreserved ==
    (phase = "decoded" /\ padding = 0) =>
        /\ decoded.ok
        /\ Len(decoded.frames) = Len(built)
        /\ \A i \in 1 .. Len(built) :
              i <= Len(decoded.frames) =>
                  /\ decoded.frames[i].identifier = getCorrectIdentifier(built[i].identifier, result.version)
                  /\ decoded.frames[i].value = built[i].value

\* C3: without a pinned version encode takes the first v of 4, 3, 2 for which every
\* frame reports supportsVersion(v) = ok and every supplied global option is legal at
\* v (v2.2 rejects UTF-16, UTF-16BE, experimental, tagIsAnUpdate, crcData and
\* tagRestrictions; v2.3 rejects UTF-16, UTF-16BE, tagIsAnUpdate and tagRestrictions;
\* v2.4 accepts all), and writes that v as the version byte of the tag
AutoVersionSelection ==
    [][(phase' = "encoded" /\ opts'.ID3Version = 0) =>
          LET framesOk(v) ==
                  \A i \in 1 .. Len(frames) :
                      LET s == Frame_supportsVersion(frames[i], v)
                      IN ~ s.threw /\ s.supportsVersion
              optionsLegal(v) ==
                  CASE v = 4 -> TRUE
                    [] v = 3 -> /\ opts'.textEncoding \notin {"UTF-16", "UTF-16BE"}
                                /\ ~ opts'.tagIsAnUpdate
                                /\ ~ opts'.tagRestrictions.present
                    [] v = 2 -> /\ opts'.textEncoding \notin {"UTF-16", "UTF-16BE"}
                                /\ ~ opts'.experimental
                                /\ ~ opts'.tagIsAnUpdate
                                /\ opts'.crcData = -1
                                /\ ~ opts'.tagRestrictions.present
              eligible == {v \in 2 .. 4 : framesOk(v) /\ optionsLegal(v)}
          IN eligible # {} =>
                LET first == CHOOSE v \in eligible : \A w \in eligible : w <= v
                IN /\ result'.ok
                   /\ result'.version = first
                   /\ At(result'.bytes, 3) = first]_vars

\* C4: when the caller pins version v and at least one frame does not support v,
\* encode gives no bytes and fails with one error that holds the reason of every
\* frame that does not support v
PinnedFailureHasEveryReason ==
    [][(phase' = "encoded" /\ opts'.ID3Version # 0) =>
          LET v == opts'.ID3Version
              fails(i) == LET s == Frame_supportsVersion(frames[i], v)
                          IN ~ s.threw /\ ~ s.supportsVersion
              reasonOf(i) == FrameReason(frames[i], v, Frame_supportsVersion(frames[i], v).reason)
              failing == {i \in 1 .. Len(frames) : fails(i)}
              given == result'.reasons[v]
          IN failing # {} =>
                /\ ~ result'.ok
                /\ result'.bytes = << >>
                /\ \A i \in failing :
                      Cardinality({k \in 1 .. Len(given) : given[k] = reasonOf(i)})
                          >= Cardinality({j \in failing : reasonOf(j) = reasonOf(i)})]_vars

SelectionMonotone ==
    [][(/\ phase = "encoded" /\ result.ok /\ opts.ID3Version # 0
        /\ phase' = "encoded" /\ opts' = [opts EXCEPT !.ID3Version = 0]) =>
          /\ result'.ok
          /\ result'.version >= opts.ID3Version
          /\ Len(frames') = Len(frames)]_vars

\* C7: after any earlier encode calls on the same frame objects, encode(F, opts) leaves
\* identifier, flags and value of the frames as they were built and returns what it
\* would have returned as the first call
EncodeIsPure ==
    phase \in {"encoded", "decoded"} =>
        /\ frames = built
        /\ result = Encoder(built, opts).result

\* C9: with unsynchronisation set, the frame stream of the emitted tag (the bytes after
\* the tag header and the extended header) has no 0xFF followed by a byte >= 0xE0 and
\* does not end with 0xFF
NoFalseSyncInStream ==
    (phase \in {"encoded", "decoded"} /\ result.ok /\ opts.unsynchronisation) =>
        LET stream == result.stream
            n == Len(stream)
        IN /\ Slice(result.bytes, Len(result.bytes) - n, Len(result.bytes)) = stream
           /\ \A i \in 1 .. n : stream[i] = 255 => (i < n /\ stream[i + 1] < 224)

\* a text that holds 0xFF 0xE0 and a text that ends the stream with 0xFF were encoded
\* with unsynchronisation: a zero byte follows each 0xFF
NoFalseSyncInStreamWitness ==
    /\ phase = "encoded"
    /\ result.ok
    /\ opts.unsynchronisation
    /\ Len(result.stream) >= 3
    /\ \E i \in 1 .. (Len(result.stream) - 2) :
          result.stream[i] = 255 /\ result.stream[i + 1] = 0 /\ result.stream[i + 2] = 224
    /\ result.stream[Len(result.stream) - 1] = 255
    /\ result.stream[Len(result.stream)] = 0

\* C11: 0x00 bytes put after the last frame of an encoded tag, inside its declared
\* size, do not change the frame list decode returns, whatever their number k >= 1
PaddingIgnored ==
    (phase = "decoded" /\ padding > 0 /\ Decoder_decode(result.bytes).ok) =>
        /\ decoded.ok
        /\ decoded.frames = Decoder_decode(result.bytes).frames

\* C12: when a frame of the encoded tag has an identifier the dispatcher of the decoder
\* does not know, decode fails and returns no frame list
DecodeIsStrict ==
    (/\ phase = "decoded"
     /\ padding = 0
     /\ \E i \in 1 .. Len(built) :
           dispatch(getCorrectIdentifier(built[i].identifier, result.version)) = "") =>
        /\ ~ decoded.ok
        /\ decoded.frames = << >>

\* C13: the dispatcher of the decoder constructs a frame for every identifier of the
\* listed classes, {REV, RVRB}, {RVA, RVAD}, {RVA2}, {EQU, EQUA}, {EQU2}, {PIC, APIC},
\* {GEO, GEOB}, {CNT, PCNT}, {POP, POPM}, {BUF, RBUF} and {CRA, AENC} included, so a tag
\* made of well-formed frames of these kinds decodes without error, frame by frame
DispatchCoversListedKinds ==
    LET listed == {<<82, 69, 86>>, <<82, 86, 82, 66>>, <<82, 86, 65>>, <<82, 86, 65, 68>>,
                   <<82, 86, 65, 50>>, <<69, 81, 85>>, <<69, 81, 85, 65>>, <<69, 81, 85, 50>>,
                   <<80, 73, 67>>, <<65, 80, 73, 67>>, <<71, 69, 79>>, <<71, 69, 79, 66>>,
                   <<67, 78, 84>>, <<80, 67, 78, 84>>, <<80, 79, 80>>, <<80, 79, 80, 77>>,
                   <<66, 85, 70>>, <<82, 66, 85, 70>>, <<67, 82, 65>>, <<65, 69, 78, 67>>}
    IN /\ \A identifier \in listed : dispatch(identifier) # ""
       /\ (/\ phase = "decoded"
           /\ padding = 0
           /\ built # << >>
           /\ \A i \in 1 .. Len(built) :
                 getCorrectIdentifier(built[i].identifier, result.version) \in listed) =>
              /\ decoded.ok
              /\ Len(decoded.frames) = Len(built)

Utf16RejectedBeforeV4 ==
    (phase = "encoded" /\ opts.textEncoding \in {"UTF-16", "UTF-16BE"}) =>
        /\ opts.ID3Version \in {2, 3} => ~ result.ok
        /\ (opts.ID3Version = 0 /\ result.ok) => result.version \notin {2, 3}

\* C17: v2.2 is refused whenever experimental, tagIsAnUpdate, crcData or
\* tagRestrictions is supplied, v2.3 whenever tagIsAnUpdate or tagRestrictions is
\* supplied, v2.4 never for an option; each refusal adds a reason whose message names
\* the version that was tested
OptionLegalityPerVersion ==
    [][phase' = "encoded" =>
          \A v \in 2 .. 4 :
              LET support == isVersionSupported(v, frames, opts')
                  given == support.reasons
                  ofOption(r) == {k \in 1 .. Len(given) :
                                      given[k].source = "option" /\ given[k].reason = r}
                  illegal == (IF v = 2 /\ opts'.experimental THEN {"experimental"} ELSE {})
                             \cup (IF v \in {2, 3} /\ opts'.tagIsAnUpdate THEN {"tagIsAnUpdate"} ELSE {})
                             \cup (IF v = 2 /\ opts'.crcData # -1 THEN {"crcData"} ELSE {})
                             \cup (IF v \in {2, 3} /\ opts'.tagRestrictions.present
                                   THEN {"tagRestrictions"} ELSE {})
              IN ~ support.threw =>
                    /\ illegal # {} => ~ support.supported
                    /\ \A r \in illegal : \E k \in ofOption(r) : given[k].names = v
                    /\ v = 4 => \A k \in 1 .. Len(given) : given[k].source # "option"
                    /\ (opts'.ID3Version = v /\ illegal # {}) =>
                          /\ ~ result'.ok
                          /\ \A r \in illegal :
                                \E k \in 1 .. Len(result'.reasons[v]) :
                                    /\ result'.reasons[v][k].source = "option"
                                    /\ result'.reasons[v][k].reason = r
                                    /\ result'.reasons[v][k].names = v]_vars

\* C19: an encoded tag starts with "ID3", the version byte, 0x00 and the flag byte,
\* then the synchsafe number of the bytes that follow the ten-byte header (extended
\* header and frame stream), then the extended header if there is one; so the tagSize
\* decode computes from the tag, 10 plus the declared size, is the number of bytes
\* encode emitted
TagHeaderLayout ==
    /\ (phase \in {"encoded", "decoded"} /\ result.ok) =>
          LET bytes == result.bytes
              declared == Len(bytes) - 10
              extendedHeaderLength == declared - Len(result.stream)
          IN /\ Len(bytes) >= 10
             /\ Slice(bytes, 0, 3) = <<73, 68, 51>>
             /\ bytes[4] = result.version
             /\ bytes[5] = 0
             /\ bytes[6] \in 0 .. 255
             /\ Slice(bytes, 6, 10) = <<(declared \div 2097152) % 128, (declared \div 16384) % 128,
                                        (declared \div 128) % 128, declared % 128>>
             /\ extendedHeaderLength >= 0
             /\ (extendedHeaderLength > 0) <=> requiresExtendedHeader([opts EXCEPT !.ID3Version = result.version])
             /\ Slice(bytes, 10 + extendedHeaderLength, Len(bytes)) = result.stream
    /\ (phase = "decoded" /\ padding = 0) =>
          /\ ~ decodeTagHeader(tag).threw
          /\ decodeTagHeader(tag).tagSize = Len(result.bytes)
          /\ decoded.ok => decoded.header.tagSize = Len(result.bytes)

\* C20: the tag has an extended header, and the extended-header bit of its flag byte
\* set, exactly when it is written at v2.3 with crcData or at v2.4 with tagIsAnUpdate,
\* crcData or tagRestrictions, never at v2.2; and encode succeeds in each of these cases
ExtendedHeaderExactly ==
    [][phase' = "encoded" =>
          LET pinned == opts'.ID3Version
              chosen == IF pinned # 0
                        THEN (IF isVersionSupported(pinned, frames, opts').supported THEN pinned ELSE 0)
                        ELSE FindVersion(4, frames, opts', NoReasons).version
              expected(v) == \/ v = 3 /\ opts'.crcData # -1
                             \/ v = 4 /\ (\/ opts'.tagIsAnUpdate
                                          \/ opts'.crcData # -1
                                          \/ opts'.tagRestrictions.present)
              extendedHeaderLength == Len(result'.bytes) - 10 - Len(result'.stream)
          IN /\ result'.ok =>
                   /\ result'.version = chosen
                   /\ (extendedHeaderLength > 0) <=> expected(chosen)
                   /\ ((result'.bytes[6] \div 64) % 2 = 1) <=> expected(chosen)
             /\ (chosen # 0 /\ expected(chosen) /\ result'.error # "Cannot remap the identifier") =>
                   result'.ok]_vars

\* C21: decodeTagHeader reads each flag of the tag from its own bit of byte 5, most
\* significant bit first (unsynchronisation, extended header, experimental), so the
\* flags decoded from an encoded tag are the options it was encoded with, whatever the
\* other flags are
TagFlagsDecodedAsEncoded ==
    (phase \in {"encoded", "decoded"} /\ result.ok) =>
        LET header == decodeTagHeader(result.bytes)
            flagByte == result.bytes[6]
        IN /\ ~ header.threw
           /\ header.version = result.version
           /\ header.unsynchronisation = ((flagByte \div 128) % 2 = 1)
           /\ header.unsynchronisation = opts.unsynchronisation
           /\ result.version \in {3, 4} =>
                 /\ header.extendedHeader = ((flagByte \div 64) % 2 = 1)
                 /\ header.extendedHeader
                       = requiresExtendedHeader([opts EXCEPT !.ID3Version = result.version])
                 /\ header.experimental = ((flagByte \div 32) % 2 = 1)
                 /\ header.experimental = opts.experimental
           /\ result.version = 4 => header.footerPresent = ((flagByte \div 16) % 2 = 1)

-----------------------------------------------------------------------------
(* Properties of decoding and encoding again *)

\* C23: when a v2.2 tag that holds a COM frame is decoded and the decoded frame list is
\* encoded again with ID3Version 4, the new tag holds the frame under the identifier
\* COMM with a 10-byte frame header and the default flags (two zero bytes)
ReencodeComAsComm ==
    (/\ phase = "reencoded"
     /\ opts.ID3Version = 4
     /\ At(tag, 3) = 2
     /\ \E i \in 1 .. Len(built) : built[i].frameType = "CommentFrame") =>
        /\ result.ok
        /\ result.version = 4
        /\ \E i \in 0 .. Len(result.stream) :
              /\ Slice(result.stream, i, i + 4) = ID_COMM
              /\ Slice(result.stream, i + 8, i + 10) = <<0, 0>>
              /\ i + 10 + SynchsafeInteger_decode(ReadIntBE(result.stream, i + 4, 4)) <= Len(result.stream)
        /\ \A i \in 0 .. Len(result.stream) : Slice(result.stream, i, i + 4) # ID_COM \o <<0>>

\* C24: remapping an identifier to another version and remapping the result back to a
\* version the identifier belongs to gives the identifier again, whenever both calls
\* return
RemapIsInvolution ==
    (phase = "back" /\ ~ ret.threw /\ ~ ret.backThrew) => ret.back = arg.identifier

\* an identifier that changed on the way (a v2.2 name remapped to v2.3 or v2.4, or the
\* reverse) has come back
RemapIsInvolutionWitness ==
    /\ phase = "back" /\ ~ ret.threw /\ ~ ret.backThrew
    /\ ret.identifier # arg.identifier
    /\ ret.back = arg.identifier

\* C25: decoding a synchsafe integer fails with an error, and returns no number, whenever
\* one of the four input bytes has its most significant bit set
SynchsafeDecodeRejectsHighBit ==
    (phase = "decoded" /\ \E i \in 1 .. 4 : arg.bytes[i] >= 128) => ret.threw

\* the call has come to its end as the whole function computes it
DecodeLoopAgrees ==
    phase \in {"returned", "threw"} => decoded = Decoder_decode(tag)

\* C26: decoding a v2.2 tag whose header flag byte has the compression bit (0x40) set is
\* rejected with an error: no header and no frames are returned
CompressedV22Rejected ==
    (At(tag, 3) = 2 /\ (At(tag, 5) \div 64) % 2 = 1) =>
        /\ phase \in {"input", "threw"}
        /\ (phase = "threw" => ~ decoded.ok /\ decoded.frames = << >>)

\* C27: decode returns only when the declared tag region lies inside the buffer and every
\* frame was constructed from as many bytes as its header declares; otherwise it fails
TruncationRejected ==
    phase = "returned" =>
        /\ decoded.header.tagSize <= Len(tag)
        /\ \A i \in 1 .. Len(ret.declared) : ret.given[i] = ret.declared[i]

TempoCodeRoundTrip ==
    phase = "read" =>
        /\ ~ ret.decoded.threw
        /\ ret.decoded.frame.value.tempoCodes = <<[tempo |-> arg.tempo, time |-> arg.time]>>

\* C28: a comment written with a two-byte terminator (UTF-16 or UTF-16BE) is split at the
\* terminator the encoder wrote, also when the last code unit of the description has a
\* zero byte next to it: the decoded description and value are the ones encoded
Utf16TerminatorAligned ==
    (/\ phase = "decoded"
     /\ result.ok
     /\ result.version \in 3 .. 4
     /\ opts.textEncoding \in {"UTF-16", "UTF-16BE"}) =>
        /\ decoded.ok
        /\ Len(decoded.frames) = Len(built)
        /\ \A i \in 1 .. Len(built) :
              built[i].frameType = "CommentFrame" => decoded.frames[i].value = built[i].value

-----------------------------------------------------------------------------
(* Properties of the frame flags *)

FrameFlagsRoundTrip ==
    (phase = "read" /\ (arg.version = 3 => ~ arg.flags.unsynchronisation /\ ~ arg.flags.dataLengthIndicator)) =>
        /\ ~ ret.header.threw
        /\ ret.header.flags = arg.flags

-----------------------------------------------------------------------------
(* Properties of the frame header *)

\* C18: the size field of a frame header is the body length as a 3-byte big-endian
\* number in v2.2, as a 4-byte big-endian number in v2.3 and as a 4-byte synchsafe
\* number in v2.4: Frame.encode writes it so and decodeFrameHeader reads it so, for
\* every body length, 128 bytes and more included
FrameSizeField ==
    LET n == arg.length + 1
        identifierLength == IF arg.version = 2 THEN 3 ELSE 4
        headerLength == IF arg.version = 2 THEN 6 ELSE 10
    IN /\ phase = "written" =>
             /\ Len(ret.bytes) = headerLength + n
             /\ Slice(ret.bytes, 0, headerLength - (IF arg.version = 2 THEN 0 ELSE 2))
                   = Slice(WellFormedFrameHeader(n, arg.version), 0,
                           headerLength - (IF arg.version = 2 THEN 0 ELSE 2))
       /\ phase = "read" =>
             /\ ~ ret.header.threw
             /\ ret.header.identifier = Slice(ret.bytes, 0, identifierLength)
             /\ ret.header.frameSize = headerLength + n

-----------------------------------------------------------------------------
(* Properties of the byte utilities *)

\* C8: for every byte sequence b,
\* Unsynchronisation.decode(Unsynchronisation.encode(b)) = b
UnsyncRoundTrip == phase = "decoded" => resynced = data

\* C10: for every n below 2^28 SynchsafeInteger.decode(SynchsafeInteger.encode(n)) = n
\* and each of the four bytes of the encoded number has its top bit clear
SynchsafeBijection ==
    /\ phase \in {"encoded", "decoded"} =>
          /\ synchsafe >= 0
          /\ \A i \in 1 .. 4 : BytesBE(synchsafe, 4)[i] < 128
    /\ phase = "decoded" => desynched = num

\* a number with a bit set in each of its four seven-bit groups went both ways
SynchsafeBijectionWitness ==
    /\ phase = "decoded"
    /\ num = Pow2(28) - 1
    /\ synchsafe = 2139062143

====
